---- MODULE Spec2Model ----
(***************************************************************************)
(* The cluster orchestrator of sour: the ClientManager (session ids and    *)
(* server attachments), the per-session packet pipeline with its taps, and *)
(* the creategame command.                                                 *)
(***************************************************************************)
EXTENDS Integers, Sequences, FiniteSets, TLC

(* ------------------------------ bounds -------------------------------- *)
\* client objects the ingresses may construct
MaxClients == 3
\* ids drawn by newClientID are 0 .. IdSpace-1 (the code: 0 .. 65534)
IdSpace == 2
\* attempts of newClientID's loop (the code: math.MaxUint16)
AttemptLimit == 2
\* ingress tasks that may run AddClient at the same time
NumTasks == 2
\* game servers
NumServers == 2
\* ConnectClient / MoveClient invocations
MaxCalls == 1
\* messages the clients send in all
MaxMessages == 2
\* hosts the clients connect from
NumHosts == 2
\* seconds the clock runs
MaxTime == 11
\* servers creategame spawns in all
MaxCreated == 2

\* a StartAndWait call is followed for this many timer units
MaxElapsed == 6
\* the manager's port range, NewManager's minPort and maxPort
minPort == 2
maxPort == 8
\* the nonces FindIdentity draws from
NonceSpace == 2
\* the values of the truncated hash
HashSpace == 4
\* the port ranges FindPort is followed on end at most this far below 2^16
MaxSpan == 6
\* events of the child that PollEvents has not read yet
MaxEvents == 2
\* calls of GameServer.Shutdown on one server
MaxShutdowns == 2
\* events the child writes on the control socket in a row
MaxFrames == 2
\* payload bytes of one of its packet events
MaxData == 1
\* messages waiting in PollEvents' socketWrites
MaxChunks == 1
\* the values a byte, a client id or a channel takes
ByteSpace == 2
\* sessions that use the matchmaker
MaxPlayers == 3
\* Queue calls
MaxQueued == 3
\* passes of the matchmaker's Poll
MaxPasses == 2
\* the frag counts a duel's score events carry
MaxScore == 3

\* the scopes of its duelists that end during a duel
MaxLeaves == 1
\* the hits of an Explode message
MaxHits == 2
\* the largest integer of a message's fields
MaxInt == 1
\* calls of ServerCommands.Handle
MaxHandles == 2
\* calls of the game server's ClientManager.Add
MaxAdds == 5
\* the Send calls followed
MaxSends == 3
\* the startServer calls followed
MaxStarts == 3

(* ----------------------------- constants ------------------------------ *)
\* capacity of ClientManager.newClients
NewClientsCap == 16
\* capacity of a client's toServer channel
CLIENT_MESSAGE_LIMIT == 16
\* seconds between two creates of one host
CREATE_SERVER_COOLDOWN == 10
\* seconds runCommandWithTimeout gives a command
COMMAND_TIMEOUT == 10
\* the margin that ends a duel
WinMargin == 3
\* DoCountdown's seconds
CountdownSeconds == 5
\* the values of a byte
ByteValues == 256
\* the slots of a subscriber's channel
SubscriberSlots == 16

\* Go's nil, for a client, a server, a scope or a call
None == 0
Clients == 1 .. MaxClients
Ids == 0 .. (IdSpace - 1)
\* the ids a uint16 holds (the code: 0 .. 65535)
SessionIds == 0 .. IdSpace
Tasks == 1 .. NumTasks
Servers == 1 .. NumServers
Calls == 1 .. MaxCalls
Hosts == 1 .. NumHosts

\* clients.ClientStatus
ClientStatusConnecting == "Connecting"
ClientStatusConnected == "Connected"
ClientStatusDisconnected == "Disconnected"
\* clients.ClientNetworkStatus
ClientNetworkStatusConnected == "NetConnected"
ClientNetworkStatusDisconnected == "NetDisconnected"
\* servers.ServerStatus
ServerStarting == "Starting"
ServerHealthy == "Healthy"
ServerFailure == "Failure"
ServerStarted == "Started"
ServerExited == "Exited"
ServerLoadingMap == "LoadingMap"
\* PollEvents' pingInterval, 500 ms: one tick of its pingTicker
pingInterval == 1
\* the values of a uint16 port
PortModulus == 65536
\* the two timeouts are counted in timer units of 5 s:
\* Start's context.WithTimeout of 10 s
StartTimeout == 2
\* StartAndWait's WaitUntilHealthy timeout of 15 s
HealthyTimeout == 3

VARIABLES
    \* ---- ClientManager ----
    state,            \* keys of ClientManager.state: the clients in the manager
    clientId,         \* client -> the value of client.Id()
    newClients,       \* the newClients channel
    polled,           \* clients for which PollClients started PollClient
    created,          \* client objects constructed so far
    addPc,            \* ingress task -> its position in AddClient
    addClient,        \* ingress task -> the client it is adding
    addDraw,          \* ingress task -> the id newClientID returned
    attempts,         \* ingress task -> newClientID's loop counter
    removing,         \* clients between RemoveClient's two critical sections
    \* ---- ClientState, Client ----
    Server,           \* client -> ClientState.Server
    Status,           \* client -> ClientState.Status
    serverSessionCtx, \* client -> ClientState.serverSessionCtx (a scope index)
    cancel,           \* client -> ClientState.cancel (the scope it cancels)
    stateMutex,       \* client -> the call holding ClientState.Mutex
    scopes,           \* the server scopes made by context.WithCancel
    sessionDone,      \* client -> client.SessionContext() is cancelled
    networkStatus,    \* client -> client.NetworkStatus()
    \* ---- GameServer ----
    gsStatus,         \* server -> GameServer.Status
    ConnectMutex,     \* server -> GameServer.ConnectMutex is locked
    sendLog,          \* every frame put on some GameServer.send, oldest first
    \* ---- ConnectClient / MoveClient invocations ----
    callPc, callKind, callClient, callTo, callFrom, callTarget, callResult,
    oldServer,        \* client -> Client.server of the older layer (MoveClient)
    crashed,          \* the process died of a run-time panic
    \* ---- the client -> server packet path ----
    toServer,         \* client -> the packets waiting on its toServer channel
    incoming,         \* every ServerPacket put on some server.Incoming()
    written,          \* server -> the frames PollWrites wrote to the socket
    nextSeq,          \* messages that arrived so far (numbers them)
    handled,           \* the packet PollUser handled last, with what became of it
    \* ---- creategame ----
    now,              \* time.Now(), in seconds
    clientHost,       \* client -> the value of client.Host()
    lastCreate,       \* Cluster.lastCreate: host -> time of its last create
    hostServers,      \* Cluster.hostServers: host -> the server it created
    managerServers,   \* the servers in the server manager's list
    nextServer,       \* servers spawned so far
    createMutex,      \* Cluster.createMutex: None or the client holding it
    pending,          \* the server RunCommand's creategame is waiting for
    lastSuccess,      \* client -> time of its last successful create
    createBy,         \* the client of the latest creategame
    createResult,     \* what the latest creategame returned
    createSeq,        \* flips at every creategame invocation
    connectRequest,   \* client -> the server CreateGame asked to connect it to
    creator,          \* server in the manager's list -> the client that spawned it
    \* ---- runCommandWithTimeout ----
    cmdPc,            \* the caller: "idle", "waiting" in the select, "returned"
    cmdClient,        \* the session the command runs for
    cmdDeadline,      \* the deadline of context.WithTimeout(ctx, 10 s)
    cmdHandler,       \* the handler goroutine: "none", "running", "sending", "received"
    cmdHandlerResult, \* what the handler returned
    cmdFinishedAt,    \* when the handler returned
    cmdReturn,        \* what runCommandWithTimeout returned
    cmdScopeLive,     \* whether the given scope was live when it returned
    \* ---- GameServer lifecycle ----
    life,             \* server -> its process, socket, timers and the positions of its tasks
    \* ---- manager.Manager ----
    marshalServers,   \* marshal.Servers: the records, oldest first
    marshalMutex,     \* marshal.mutex: the task holding it, or None
    newPc,            \* task -> its position in NewServer
    newPort,          \* task -> the port FindPort returned to it
    newId,            \* task -> the hash FindIdentity returned to it
    socketFiles,      \* the hashes h with a file at /tmp/qserv_<h>.sock
    \* ---- Manager.FindPort, its loop ----
    scanPc,           \* the position of a FindPort call
    scanMin,          \* marshal.minPort
    scanMax,          \* marshal.maxPort
    scanPort,         \* the loop variable port, a uint16
    scanWrapped,      \* port += 2 has passed 2^16
    scanResult,       \* what FindPort returned
    \* ---- the control socket, read side ----
    readWritten,      \* the events the child wrote, oldest first
    readPending,      \* the bytes of them not yet returned by a Read
    readChunks,       \* PollEvents' socketWrites: the results of PollReads' Reads
    readYield,        \* the events PollEvents decoded, oldest first
    readPanicked,     \* a slice went out of range while decoding
    \* ---- Matchmaker ----
    queue,            \* Matchmaker.queue, oldest first
    joinClock,        \* the time of the next Queue call
    gone,             \* the sessions whose NetworkStatus() is disconnected
    passQueue,        \* the entries the last pass of Poll looked at, after pruning
    passDuels,        \* the duels the last pass of Poll started, in order
    passes,           \* passes of Poll so far
    \* ---- Matchmaker.Duel ----
    duel,             \* the Duel task: its position, scopes, watchers, scores, server
    exited,           \* logger.Fatal has ended the process
    \* ---- MapSender ----
    handling,         \* m.Clients has an entry of the client
    sendPc,           \* where SendState.Send is
    sendSteps,        \* what the flow has done so far, in order
    userAccepted,     \* the channel userAccepted, its length
    demoRequested,    \* the channel demoRequested, its length
    requested,        \* the client has asked for the demo
    scopeDone,        \* the client's server session context is done
    watcher,          \* the task that waits for Send's result
    \* ---- Marshal, Unmarshal ----
    codecPc,          \* how far the round trip of a message is
    msgIn,            \* the message given to Marshal
    codecBytes,       \* the bytes Marshal has written
    msgOut,           \* what Unmarshal made of them
    \* ---- ServerCommands ----
    handleLog,        \* the Handle calls so far: who called what, what ran, what was sent
    \* ---- the game server's ClientManager ----
    cmClients,        \* cm.clients: the connected clients, each with its CN and session
    cmAdded,          \* the Add calls so far
    \* ---- broadcasts ----
    castLoop,         \* where PollEvents' loop is: at its select or in the fan-out
    castMutex,        \* who holds server.Mutex
    castQueued,       \* whether a message waits on server.broadcasts
    castChannel,      \* the subscriber's channel, its length
    castSubscribed,   \* the channel is in server.subscribers
    castDraining,     \* the subscriber's task still receives
    castUnsub,        \* where BroadcastUnsubscribe is
    castPong,         \* a pong of the child waits to be processed
    \* ---- ENetClient ----
    ackContextDone,   \* the client's context is cancelled
    ackPolling,       \* ENetClient.Poll has not returned
    ackQueue,         \* c.toClient: the sends waiting for Poll
    ackPc,            \* how far each Send is
    ackDone,          \* the acknowledgement channel each Send returned, its contents
    ackCaller,        \* what the caller of each Send does with that channel
    \* ---- ServerDeployment ----
    depPc,            \* where startServer is
    depMutex,         \* who holds the deployment's mutex
    depConfigurer,    \* s.configurer is set
    depServer,        \* s.server: how many servers the deployment has installed
    depStarts,        \* the startServer calls so far
    depHeld,          \* what the receiver of each handler channel does with the event it took
    depResult,        \* what the last startServer returned
    getPc             \* where a GetServer call is

idVars == <<state, clientId, newClients, polled, created, addPc, addClient,
            addDraw, attempts, removing>>
stVars == <<Server, Status, serverSessionCtx, cancel, stateMutex, scopes,
            sessionDone, networkStatus>>
gsVars == <<gsStatus, ConnectMutex, sendLog>>
callVars == <<callPc, callKind, callClient, callTo, callFrom, callTarget,
              callResult, oldServer, crashed>>
pipeVars == <<toServer, incoming, written, nextSeq, handled>>
createVars == <<now, clientHost, lastCreate, hostServers, managerServers,
                nextServer, createMutex, pending, lastSuccess, createBy,
                createResult, createSeq, connectRequest, creator>>
cmdVars == <<cmdPc, cmdClient, cmdDeadline, cmdHandler, cmdHandlerResult,
             cmdFinishedAt, cmdReturn, cmdScopeLive>>
lifeVars == <<life>>
allocVars == <<marshalServers, marshalMutex, newPc, newPort, newId, socketFiles>>
scanVars == <<scanPc, scanMin, scanMax, scanPort, scanWrapped, scanResult>>
readVars == <<readWritten, readPending, readChunks, readYield, readPanicked>>
matchVars == <<queue, joinClock, gone, passQueue, passDuels, passes>>
duelVars == <<duel, exited>>
sendVars ==
    <<handling, sendPc, sendSteps, userAccepted, demoRequested, requested,
      scopeDone, watcher>>
codecVars == <<codecPc, msgIn, codecBytes, msgOut>>
handleVars == <<handleLog>>
listVars == <<cmClients, cmAdded>>
castVars ==
    <<castLoop, castMutex, castQueued, castChannel, castSubscribed,
      castDraining, castUnsub, castPong>>
ackVars == <<ackContextDone, ackPolling, ackQueue, ackPc, ackDone, ackCaller>>
depVars ==
    <<depPc, depMutex, depConfigurer, depServer, depStarts, depHeld,
      depResult, getPc>>
\* the cluster, its servers and the old manager
clusterVars == <<idVars, stVars, gsVars, callVars, pipeVars, createVars,
                 cmdVars, lifeVars, allocVars>>
\* the parts followed on their own
laterVars ==
    <<scanVars, readVars, matchVars, duelVars, sendVars, codecVars, handleVars,
      listVars, castVars, ackVars, depVars>>
vars == <<clusterVars, laterVars>>

\* what the manager's and the connect actions leave alone
outsideManager == <<pipeVars, createVars, cmdVars, lifeVars, allocVars, laterVars>>
\* what the packet path leaves alone besides the manager and the servers
outsidePipeline == <<createVars, cmdVars, lifeVars, allocVars, laterVars>>
\* what creategame leaves alone besides the calls
outsideCreate == <<idVars, stVars, gsVars, pipeVars, cmdVars, lifeVars,
                  allocVars, laterVars>>


(* ------------------------- ClientManager ids --------------------------- *)

\* newClientID's scan of c.state: some client of the manager has this id
Taken(number) == \E client \in state : clientId[client] = number

\* a connection arrives at an ingress task, which constructs a client and
\* calls AddClient
AddClientCall(t, c) ==
    /\ ~crashed
    /\ addPc[t] = "idle"
    /\ c \notin created
    /\ created' = created \cup {c}
    /\ addPc' = [addPc EXCEPT ![t] = "newClientID"]
    /\ addClient' = [addClient EXCEPT ![t] = c]
    /\ attempts' = [attempts EXCEPT ![t] = 0]
    /\ UNCHANGED <<state, clientId, newClients, polled, addDraw, removing>>
    /\ UNCHANGED <<stVars, gsVars, callVars>>
    /\ UNCHANGED outsideManager

\* one iteration of newClientID's loop: draw a number, scan c.state (without
\* the manager's mutex), retry when taken
NewClientIDDraw(t) ==
    /\ ~crashed
    /\ addPc[t] = "newClientID"
    /\ attempts[t] < AttemptLimit
    /\ \E number \in Ids :
         IF Taken(number)
         THEN /\ attempts' = [attempts EXCEPT ![t] = @ + 1]
              /\ UNCHANGED <<addPc, addDraw>>
         ELSE /\ addDraw' = [addDraw EXCEPT ![t] = number]
              /\ addPc' = [addPc EXCEPT ![t] = "insert"]
              /\ UNCHANGED attempts
    /\ UNCHANGED <<state, clientId, newClients, polled, created, addClient, removing>>
    /\ UNCHANGED <<stVars, gsVars, callVars>>
    /\ UNCHANGED outsideManager

\* newClientID ran out of attempts: AddClient returns the error
NewClientIDFail(t) ==
    /\ ~crashed
    /\ addPc[t] = "newClientID"
    /\ attempts[t] >= AttemptLimit
    /\ addPc' = [addPc EXCEPT ![t] = "idle"]
    /\ addClient' = [addClient EXCEPT ![t] = None]
    /\ UNCHANGED <<state, clientId, newClients, polled, created, addDraw, attempts, removing>>
    /\ UNCHANGED <<stVars, gsVars, callVars>>
    /\ UNCHANGED outsideManager

\* the rest of AddClient: SetId, a fresh ClientState into c.state under the
\* manager's mutex, the bundle onto newClients
AddClientInsert(t) ==
    /\ ~crashed
    /\ addPc[t] = "insert"
    /\ Len(newClients) < NewClientsCap
    /\ LET c == addClient[t] IN
         /\ clientId' = [clientId EXCEPT ![c] = addDraw[t]]
         /\ state' = state \cup {c}
         /\ newClients' = Append(newClients, c)
    /\ addPc' = [addPc EXCEPT ![t] = "idle"]
    /\ addClient' = [addClient EXCEPT ![t] = None]
    /\ UNCHANGED <<polled, created, addDraw, attempts, removing>>
    /\ UNCHANGED <<stVars, gsVars, callVars>>
    /\ UNCHANGED outsideManager

\* Cluster.PollClients: take a bundle and start the session task
PollClients ==
    /\ ~crashed
    /\ newClients # <<>>
    /\ polled' = polled \cup {Head(newClients)}
    /\ newClients' = Tail(newClients)
    /\ UNCHANGED <<state, clientId, created, addPc, addClient, addDraw, attempts, removing>>
    /\ UNCHANGED <<stVars, gsVars, callVars>>
    /\ UNCHANGED outsideManager

(* --------------------- ClientState and its scopes ---------------------- *)

\* a frame put on server.send by SendConnect / SendDisconnect; by is the
\* invocation that sent it (0: none of the invocations followed here)
Frame(s, ev, c, by) ==
    [server |-> s, event |-> ev, id |-> clientId[c], by |-> by, data |-> <<>>]

\* the frames of one server's send channel, oldest first
SendOf(s) == SelectSeq(sendLog, LAMBDA f : f.server = s)

\* ctx.Err() # nil for a server scope: its own cancel was called, or its
\* parent (the client's session context) is cancelled
ScopeCancelled(i) == scopes[i].cancelled \/ sessionDone[scopes[i].owner]

\* ClientManager.ClientDisconnected, under state.Mutex
ClientDisconnectedBody(c) ==
    /\ sendLog' = IF Server[c] # None
                  THEN Append(sendLog, Frame(Server[c], "Disconnect", c, 0))
                  ELSE sendLog
    /\ Server' = [Server EXCEPT ![c] = None]
    /\ Status' = [Status EXCEPT ![c] = ClientStatusDisconnected]
    /\ scopes' = IF cancel[c] # None
                 THEN [scopes EXCEPT ![cancel[c]].cancelled = TRUE]
                 ELSE scopes

\* ClientDisconnected called on its own: the server kicked the client out
ClientDisconnected(c) ==
    /\ ~crashed
    /\ c \in state
    /\ stateMutex[c] = None
    /\ ClientDisconnectedBody(c)
    /\ UNCHANGED <<serverSessionCtx, cancel, stateMutex, sessionDone, networkStatus>>
    /\ UNCHANGED <<gsStatus, ConnectMutex>>
    /\ UNCHANGED <<idVars, callVars>>
    /\ UNCHANGED outsideManager

\* RemoveClient, first half: ClientDisconnected(client)
RemoveClientDisconnect(c) ==
    /\ ~crashed
    /\ c \in state
    /\ c \notin removing
    /\ stateMutex[c] = None
    /\ ClientDisconnectedBody(c)
    /\ removing' = removing \cup {c}
    /\ UNCHANGED <<state, clientId, newClients, polled, created, addPc, addClient,
                   addDraw, attempts>>
    /\ UNCHANGED <<serverSessionCtx, cancel, stateMutex, sessionDone, networkStatus>>
    /\ UNCHANGED <<gsStatus, ConnectMutex>>
    /\ UNCHANGED callVars
    /\ UNCHANGED outsideManager

\* RemoveClient, second half: delete(c.state, client) under the manager's mutex
RemoveClientDelete(c) ==
    /\ ~crashed
    /\ c \in removing
    /\ state' = state \ {c}
    /\ removing' = removing \ {c}
    /\ UNCHANGED <<clientId, newClients, polled, created, addPc, addClient,
                   addDraw, attempts>>
    /\ UNCHANGED <<stVars, gsVars, callVars>>
    /\ UNCHANGED outsideManager

\* the ingress session context is cancelled (ENetClient.Disconnect calls
\* c.cancel(); the ingress context ending does the same)
SessionCancel(c) ==
    /\ ~crashed
    /\ c \in state
    /\ ~sessionDone[c]
    /\ sessionDone' = [sessionDone EXCEPT ![c] = TRUE]
    /\ UNCHANGED <<Server, Status, serverSessionCtx, cancel, stateMutex, scopes,
                   networkStatus>>
    /\ UNCHANGED <<idVars, gsVars, callVars>>
    /\ UNCHANGED outsideManager

\* ENetClient.Destroy
Destroy(c) ==
    /\ ~crashed
    /\ c \in state
    /\ sessionDone[c]
    /\ networkStatus[c] = ClientNetworkStatusConnected
    /\ networkStatus' = [networkStatus EXCEPT ![c] = ClientNetworkStatusDisconnected]
    /\ UNCHANGED <<Server, Status, serverSessionCtx, cancel, stateMutex, scopes,
                   sessionDone>>
    /\ UNCHANGED <<idVars, gsVars, callVars>>
    /\ UNCHANGED outsideManager

\* the attached server confirms the connect: the cluster's server poller
\* marks the client connected
ServerConfirmsConnect(c) ==
    /\ ~crashed
    /\ c \in state
    /\ stateMutex[c] = None
    /\ Server[c] # None
    /\ Status[c] = ClientStatusConnecting
    /\ Status' = [Status EXCEPT ![c] = ClientStatusConnected]
    /\ UNCHANGED <<Server, serverSessionCtx, cancel, stateMutex, scopes,
                   sessionDone, networkStatus>>
    /\ UNCHANGED <<idVars, gsVars, callVars>>
    /\ UNCHANGED outsideManager

(* ----------------------------- ConnectClient --------------------------- *)

\* GameServer.IsRunning
IsRunning(s) ==
    gsStatus[s] \in {ServerHealthy, ServerStarting, ServerStarted, ServerLoadingMap}

callRest == <<oldServer, crashed>>

\* invocations take the call slots in order
FreeCall(k) ==
    /\ callPc[k] = "idle"
    /\ \A j \in Calls : j < k => callPc[j] # "idle"

\* ConnectClient up to its lock: GetState and the NetworkStatus check
ConnectClientEnter(k, c, s) ==
    /\ FreeCall(k)
    /\ callKind' = [callKind EXCEPT ![k] = "connect"]
    /\ callClient' = [callClient EXCEPT ![k] = c]
    /\ callTo' = [callTo EXCEPT ![k] = s]
    /\ IF c \notin state \/ networkStatus[c] = ClientNetworkStatusDisconnected
       THEN /\ callPc' = [callPc EXCEPT ![k] = "done"]
            /\ callResult' = [callResult EXCEPT ![k] = "error"]
       ELSE /\ callPc' = [callPc EXCEPT ![k] = "entered"]
            /\ UNCHANGED callResult
    /\ UNCHANGED <<callFrom, callTarget, callRest>>
    /\ UNCHANGED <<idVars, stVars, gsVars>>
    /\ UNCHANGED outsideManager

\* a caller that attaches a session directly (the matchmaker, the map sender)
ConnectClient(k, c, s) ==
    /\ ~crashed
    /\ c \in created
    /\ ConnectClientEnter(k, c, s)

\* RunCommand "join": skipped when the client is already on the target,
\* otherwise ConnectClient to the running server the reference names
RunCommandJoin(k, c, s) ==
    /\ ~crashed
    /\ c \in state
    /\ stateMutex[c] = None
    /\ Server[c] # s
    /\ IsRunning(s)
    /\ ConnectClientEnter(k, c, s)

\* ConnectClientLock with the Disconnect to the old server left out
ConnectClientLock_NoDisconnect(k) ==
    /\ ~crashed
    /\ callPc[k] = "entered"
    /\ LET c == callClient[k] IN
         /\ stateMutex[c] = None
         /\ stateMutex' = [stateMutex EXCEPT ![c] = k]
         /\ callFrom' = [callFrom EXCEPT ![k] = Server[c]]
         /\ Server' = [Server EXCEPT ![c] = callTo[k]]
    /\ callPc' = [callPc EXCEPT ![k] = "locked"]
    /\ UNCHANGED <<Status, serverSessionCtx, cancel, scopes, sessionDone, networkStatus>>
    /\ UNCHANGED <<gsStatus, ConnectMutex, sendLog>>
    /\ UNCHANGED <<callKind, callClient, callTo, callTarget, callResult, callRest>>
    /\ UNCHANGED idVars
    /\ UNCHANGED outsideManager

\* ConnectClient: state.Mutex.Lock(), Disconnect to the old server,
\* state.Server = server
ConnectClientLock(k) ==
    /\ ~crashed
    /\ callPc[k] = "entered"
    /\ LET c == callClient[k] IN
         /\ stateMutex[c] = None
         /\ stateMutex' = [stateMutex EXCEPT ![c] = k]
         /\ sendLog' = IF Server[c] # None
                       THEN Append(sendLog, Frame(Server[c], "Disconnect", c, k))
                       ELSE sendLog
         /\ callFrom' = [callFrom EXCEPT ![k] = Server[c]]
         /\ Server' = [Server EXCEPT ![c] = callTo[k]]
    /\ callPc' = [callPc EXCEPT ![k] = "locked"]
    /\ UNCHANGED <<Status, serverSessionCtx, cancel, scopes, sessionDone, networkStatus>>
    /\ UNCHANGED <<gsStatus, ConnectMutex>>
    /\ UNCHANGED <<callKind, callClient, callTo, callTarget, callResult, callRest>>
    /\ UNCHANGED idVars
    /\ UNCHANGED outsideManager

\* ConnectClient: state.Server.ConnectMutex.Lock(), Status = Connecting, the
\* new server scope (a child of the session context), state.Mutex.Unlock()
ConnectClientInstall(k) ==
    /\ ~crashed
    /\ callPc[k] = "locked"
    /\ LET c == callClient[k]
           s == Server[c]
           n == Len(scopes) + 1
       IN
         /\ ~ConnectMutex[s]
         /\ ConnectMutex' = [ConnectMutex EXCEPT ![s] = TRUE]
         /\ Status' = [Status EXCEPT ![c] = ClientStatusConnecting]
         /\ scopes' = Append(scopes, [owner |-> c, cancelled |-> FALSE])
         /\ serverSessionCtx' = [serverSessionCtx EXCEPT ![c] = n]
         /\ cancel' = [cancel EXCEPT ![c] = n]
         /\ stateMutex' = [stateMutex EXCEPT ![c] = None]
    /\ callPc' = [callPc EXCEPT ![k] = "installed"]
    /\ UNCHANGED <<Server, sessionDone, networkStatus>>
    /\ UNCHANGED <<gsStatus, sendLog>>
    /\ UNCHANGED <<callKind, callClient, callTo, callFrom, callTarget, callResult, callRest>>
    /\ UNCHANGED idVars
    /\ UNCHANGED outsideManager

\* ConnectClient: server.SendConnect(client.Id()), client.Connect(), go func
ConnectClientSend(k) ==
    /\ ~crashed
    /\ callPc[k] = "installed"
    /\ sendLog' = Append(sendLog, Frame(callTo[k], "Connect", callClient[k], k))
    /\ callPc' = [callPc EXCEPT ![k] = "spawned"]
    /\ UNCHANGED <<gsStatus, ConnectMutex>>
    /\ UNCHANGED <<callKind, callClient, callTo, callFrom, callTarget, callResult, callRest>>
    /\ UNCHANGED <<idVars, stVars>>
    /\ UNCHANGED outsideManager

\* the goroutine starts: "defer state.Server.ConnectMutex.Unlock()" reads
\* state.Server now (without state.Mutex); a nil Server is a run-time panic
ConnectWaitStart(k) ==
    /\ ~crashed
    /\ callPc[k] = "spawned"
    /\ LET s == Server[callClient[k]] IN
         IF s = None
         THEN /\ crashed' = TRUE
              /\ UNCHANGED <<callPc, callTarget>>
         ELSE /\ callTarget' = [callTarget EXCEPT ![k] = s]
              /\ callPc' = [callPc EXCEPT ![k] = "waiting"]
              /\ UNCHANGED crashed
    /\ UNCHANGED <<callKind, callClient, callTo, callFrom, callResult, oldServer>>
    /\ UNCHANGED <<idVars, stVars, gsVars>>
    /\ UNCHANGED outsideManager

\* the goroutine returns and its deferred Unlock runs on the mutex it read at
\* its start; unlocking an unlocked sync.Mutex is a fatal error
ConnectWaitReturn(k, result) ==
    /\ callResult' = [callResult EXCEPT ![k] = result]
    /\ callPc' = [callPc EXCEPT ![k] = "done"]
    /\ IF ConnectMutex[callTarget[k]]
       THEN /\ ConnectMutex' = [ConnectMutex EXCEPT ![callTarget[k]] = FALSE]
            /\ UNCHANGED crashed
       ELSE /\ crashed' = TRUE
            /\ UNCHANGED ConnectMutex
    /\ UNCHANGED <<callKind, callClient, callTo, callFrom, callTarget, oldServer>>
    /\ UNCHANGED <<gsStatus, sendLog>>
    /\ UNCHANGED <<idVars, stVars>>
    /\ UNCHANGED outsideManager

\* the goroutine sees ClientStatusConnected: connected <- true
ConnectWaitConnected(k) ==
    /\ ~crashed
    /\ callPc[k] = "waiting"
    /\ stateMutex[callClient[k]] = None
    /\ Status[callClient[k]] = ClientStatusConnected
    /\ ConnectWaitReturn(k, "true")

\* the goroutine's select takes the session context's or the one-second
\* connect context's Done: connected <- false
ConnectWaitTimeout(k) ==
    /\ ~crashed
    /\ callPc[k] = "waiting"
    /\ ConnectWaitReturn(k, "false")

\* Cluster.MoveClient of the older layer
MoveClient(k, c, target) ==
    /\ ~crashed
    /\ FreeCall(k)
    /\ c \in state
    /\ oldServer[c] # None
    /\ callKind' = [callKind EXCEPT ![k] = "move"]
    /\ callClient' = [callClient EXCEPT ![k] = c]
    /\ callTo' = [callTo EXCEPT ![k] = target]
    /\ callFrom' = [callFrom EXCEPT ![k] = oldServer[c]]
    /\ callPc' = [callPc EXCEPT ![k] = "done"]
    /\ IF gsStatus[target] # ServerHealthy
       THEN /\ callResult' = [callResult EXCEPT ![k] = "error"]
            /\ UNCHANGED <<sendLog, oldServer>>
       ELSE IF target = oldServer[c]
       THEN /\ callResult' = [callResult EXCEPT ![k] = "same"]
            /\ UNCHANGED <<sendLog, oldServer>>
       ELSE /\ callResult' = [callResult EXCEPT ![k] = "moved"]
            /\ sendLog' = sendLog \o <<Frame(oldServer[c], "Disconnect", c, k),
                                       Frame(target, "Connect", c, k)>>
            /\ oldServer' = [oldServer EXCEPT ![c] = target]
    /\ UNCHANGED <<callTarget, crashed>>
    /\ UNCHANGED <<gsStatus, ConnectMutex>>
    /\ UNCHANGED <<idVars, stVars>>
    /\ UNCHANGED outsideManager

(* ------------------- the client -> server packet path ------------------ *)

\* the messages a client sends here: a code and, for N_TEXT, whether the
\* text begins with '#'
MessageKinds ==
    { [code |-> "N_CONNECT", command |-> FALSE],
      [code |-> "N_TEXT", command |-> TRUE],
      [code |-> "N_TEXT", command |-> FALSE],
      [code |-> "N_POS", command |-> FALSE],
      [code |-> "N_TELEPORT", command |-> FALSE] }

\* the non-empty sequences over S of length at most n
SeqsUpTo(S, n) == UNION { [1 .. m -> S] : m \in 1 .. n }

\* the record of a handled packet before any packet was handled
NoPacket ==
    [client |-> None, server |-> None, msgs |-> <<>>, taps |-> <<>>,
     calls |-> <<>>, timedOut |-> <<>>, outcome |-> <<>>, out |-> <<>>,
     sent |-> FALSE]

\* ENetIngress.Poll, EventTypeReceive: the packet goes onto the client's
\* toServer channel; ok is whether its data decodes
ReceivePacket(c, kinds, ok) ==
    /\ ~crashed
    /\ c \in state
    /\ Len(toServer[c]) < CLIENT_MESSAGE_LIMIT
    /\ nextSeq + Len(kinds) <= MaxMessages
    /\ ok \/ Len(kinds) = 1
    /\ LET msgs == [i \in 1 .. Len(kinds) |->
                      [code |-> IF ok THEN kinds[i].code ELSE "malformed",
                       command |-> ok /\ kinds[i].command,
                       seq |-> nextSeq + i]]
       IN toServer' = [toServer EXCEPT ![c] = Append(@, [ok |-> ok, msgs |-> msgs])]
    /\ nextSeq' = nextSeq + Len(kinds)
    /\ UNCHANGED <<incoming, written, handled>>
    /\ UNCHANGED <<idVars, stVars, gsVars, callVars>>
    /\ UNCHANGED outsidePipeline

\* P.IsConnectingMessage: the messages of the connection handshake
IsConnectingMessage(code) == code \in {"N_CONNECT"}

\* P.IsOwnerOnly: the edit messages
IsOwnerOnly(code) == code \in {"N_EDITF"}

\* the taps PollFromMessages installs on user.From, in the order it installs
\* them
Taps == <<"chats", "blockConnecting", "connects", "teleports", "edits", "crcs", "votes">>

\* whether a tap asked for this code
TapMatches(tap, code) ==
    CASE tap = "chats" -> code = "N_TEXT"
      [] tap = "blockConnecting" -> ~IsConnectingMessage(code)
      [] tap = "connects" -> code = "N_CONNECT"
      [] tap = "teleports" -> code = "N_TELEPORT"
      [] tap = "edits" -> IsOwnerOnly(code)
      [] tap = "crcs" -> code = "N_MAPCRC"
      [] tap = "votes" -> code = "N_MAPVOTE"

\* the one tap a message is delivered to: the first installed tap that
\* matches its code, "none" when no tap matches
MatchingTap(code) ==
    IF \E i \in DOMAIN Taps : TapMatches(Taps[i], code)
    THEN Taps[CHOOSE i \in DOMAIN Taps :
                 /\ TapMatches(Taps[i], code)
                 /\ \A j \in DOMAIN Taps : TapMatches(Taps[j], code) => i <= j]
    ELSE "none"

\* what the edits tap and the votes tap find outside the packet path
TapEnvs == [edit : {"error", "closedSpace", "namedServer", "allowed"},
            vote : {"pass", "create"}]

\* one finding when no message of the packet goes to the edits or votes tap
TapEnvsOf(msgs) ==
    IF \E i \in DOMAIN msgs : MatchingTap(msgs[i].code) \in {"edits", "votes"}
    THEN TapEnvs
    ELSE {[edit |-> "allowed", vote |-> "pass"]}

\* the chats tap: msg.Drop() for every text, then msg.Pass() when the text
\* begins with '#'
ChatsTap(msg) ==
    IF ~msg.command THEN <<"Drop">> ELSE <<"Drop", "Pass">>

\* the blockConnecting tap
BlockConnectingTap(status) ==
    IF status = ClientStatusConnecting THEN <<"Drop">> ELSE <<"Pass">>

\* the edits tap
EditsTap(env) ==
    IF env.edit \in {"error", "closedSpace", "namedServer"} THEN <<"Drop">> ELSE <<"Pass">>

\* the votes tap
VotesTap(env) ==
    IF env.vote = "create" THEN <<"Drop">> ELSE <<"Pass">>

\* the dispositions a tap of PollFromMessages calls on a message, in order
TapCalls(tap, msg, status, env) ==
    CASE tap = "chats" -> ChatsTap(msg)
      [] tap = "blockConnecting" -> BlockConnectingTap(status)
      [] tap = "connects" -> <<"Pass">>
      [] tap = "teleports" -> <<"Pass">>
      [] tap = "edits" -> EditsTap(env)
      [] tap = "crcs" -> <<"Pass">>
      [] tap = "votes" -> VotesTap(env)

\* user.From.Process: an untapped message passes; a tapped one is suspended
\* until its tap answers, and a tap that does not answer in time is an
\* error.  The answer of a tap that calls two dispositions on one message is
\* either of them (pick).
ProcessFrom(tap, calls, timedOut, pick) ==
    IF tap = "none" THEN "Pass"
    ELSE IF timedOut THEN "Error"
    ELSE calls[pick]

\* server.To.Process: no tap is installed on a server's To proxy
ProcessTo(message) == message

\* the loop with the processed messages collected in reverse
Processed_Reversed(msgs, outcome) ==
    LET loop[i \in 0 .. Len(msgs)] ==
            IF i = 0 THEN <<>>
            ELSE IF outcome[i] \in {"Error", "Drop"} THEN loop[i - 1]
            ELSE <<ProcessTo(msgs[i])>> \o loop[i - 1]
    IN loop[Len(msgs)]

\* PollUser's processing loop over the decoded messages: an error or a nil
\* result skips the message, anything else appends what server.To.Process
\* makes of the original message
Processed(msgs, outcome) ==
    LET loop[i \in 0 .. Len(msgs)] ==
            IF i = 0 THEN <<>>
            ELSE IF outcome[i] \in {"Error", "Drop"} THEN loop[i - 1]
            ELSE Append(loop[i - 1], ProcessTo(msgs[i]))
    IN loop[Len(msgs)]

\* Cluster.PollUser, case msg := <-toServer
PollUserToServer(c) ==
    /\ ~crashed
    /\ c \in polled
    /\ toServer[c] # <<>>
    /\ stateMutex[c] = None
    /\ toServer' = [toServer EXCEPT ![c] = Tail(@)]
    /\ LET packet == Head(toServer[c])
           n == Len(packet.msgs)
       IN IF ~packet.ok \/ Server[c] = None
          THEN /\ handled' = [NoPacket EXCEPT !.client = c, !.msgs = packet.msgs]
               /\ UNCHANGED incoming
          ELSE \E timedOut \in [1 .. n -> BOOLEAN], pick \in [1 .. n -> 1 .. 2],
                  env \in TapEnvsOf(packet.msgs) :
                 LET taps == [i \in 1 .. n |-> MatchingTap(packet.msgs[i].code)]
                     calls == [i \in 1 .. n |->
                                 IF taps[i] = "none" THEN <<>>
                                 ELSE TapCalls(taps[i], packet.msgs[i], Status[c], env)]
                     outcome == [i \in 1 .. n |->
                                   ProcessFrom(taps[i], calls[i], timedOut[i], pick[i])]
                     processed == Processed(packet.msgs, outcome)
                 IN /\ \A i \in 1 .. n : timedOut[i] => taps[i] # "none"
                    /\ \A i \in 1 .. n :
                          pick[i] <= IF timedOut[i] \/ taps[i] = "none" THEN 1
                                     ELSE Len(calls[i])
                    /\ incoming' = Append(incoming,
                           [server |-> Server[c], session |-> clientId[c],
                            messages |-> processed])
                    /\ handled' = [client |-> c, server |-> Server[c],
                                   msgs |-> packet.msgs, taps |-> taps,
                                   calls |-> calls, timedOut |-> timedOut,
                                   outcome |-> outcome,
                                   out |-> processed, sent |-> TRUE]
    /\ UNCHANGED <<written, nextSeq>>
    /\ UNCHANGED <<idVars, stVars, gsVars, callVars>>
    /\ UNCHANGED outsidePipeline

\* Cluster.PollClient of the older layer, case msg := <-toServer
PollClientToServer(c) ==
    /\ ~crashed
    /\ c \in polled
    /\ toServer[c] # <<>>
    /\ stateMutex[c] = None
    /\ toServer' = [toServer EXCEPT ![c] = Tail(@)]
    /\ sendLog' = IF Server[c] # None
                  THEN Append(sendLog, [Frame(Server[c], "Receive", c, 0)
                                           EXCEPT !.data = Head(toServer[c]).msgs])
                  ELSE sendLog
    /\ UNCHANGED <<incoming, written, nextSeq, handled>>
    /\ UNCHANGED <<gsStatus, ConnectMutex>>
    /\ UNCHANGED <<idVars, stVars, callVars>>
    /\ UNCHANGED outsidePipeline

\* GameServer.PollWrites: the oldest frame of server.send goes to the socket
PollWrites(s) ==
    /\ ~crashed
    /\ written[s] < Len(SendOf(s))
    /\ written' = [written EXCEPT ![s] = @ + 1]
    /\ UNCHANGED <<toServer, incoming, nextSeq, handled>>
    /\ UNCHANGED <<idVars, stVars, gsVars, callVars>>
    /\ UNCHANGED outsidePipeline

(* ------------------------ runCommandWithTimeout ------------------------ *)

\* what the command path leaves alone
outsideCommand == <<idVars, stVars, gsVars, callVars, pipeVars, createVars,
                   lifeVars, allocVars, laterVars>>

\* ctx.Done() of a context without the 10 s timeout
DoneReady_NoDeadline ==
    /\ cmdPc = "waiting"
    /\ sessionDone[cmdClient]

\* ctx.Done() of context.WithTimeout(ctx, time.Second*10) is closed: the
\* deadline passed or the given scope is cancelled
DoneReady ==
    /\ cmdPc = "waiting"
    /\ (now >= cmdDeadline \/ sessionDone[cmdClient])

\* the handler goroutine is blocked in its send on resultChannel
ResultReady ==
    /\ cmdPc = "waiting"
    /\ cmdHandler = "sending"

\* runCommandWithTimeout up to its select: the timeout context, the result
\* channel, the handler goroutine
RunCommandWithTimeoutCall(c) ==
    /\ ~crashed
    /\ c \in state
    /\ cmdPc = "idle"
    /\ cmdPc' = "waiting"
    /\ cmdClient' = c
    /\ cmdDeadline' = now + COMMAND_TIMEOUT
    /\ cmdHandler' = "running"
    /\ UNCHANGED <<cmdHandlerResult, cmdFinishedAt, cmdReturn, cmdScopeLive>>
    /\ UNCHANGED outsideCommand

\* the handler (runCommand) returns and the goroutine goes to send its
\* result on the unbuffered resultChannel
HandlerFinish(result) ==
    /\ ~crashed
    /\ cmdHandler = "running"
    /\ cmdHandler' = "sending"
    /\ cmdHandlerResult' = result
    /\ cmdFinishedAt' = now
    /\ UNCHANGED <<cmdPc, cmdClient, cmdDeadline, cmdReturn, cmdScopeLive>>
    /\ UNCHANGED outsideCommand

\* select, case result := <-resultChannel
SelectResult ==
    /\ ~crashed
    /\ ResultReady
    /\ cmdPc' = "returned"
    /\ cmdHandler' = "received"
    /\ cmdReturn' = cmdHandlerResult
    /\ cmdScopeLive' = ~sessionDone[cmdClient]
    /\ UNCHANGED <<cmdClient, cmdDeadline, cmdHandlerResult, cmdFinishedAt>>
    /\ UNCHANGED outsideCommand

\* select, case <-ctx.Done(): the handler goroutine is left behind
SelectDone ==
    /\ ~crashed
    /\ DoneReady
    /\ cmdPc' = "returned"
    /\ cmdReturn' = "command timed out"
    /\ cmdScopeLive' = ~sessionDone[cmdClient]
    /\ UNCHANGED <<cmdClient, cmdDeadline, cmdHandler, cmdHandlerResult, cmdFinishedAt>>
    /\ UNCHANGED outsideCommand

\* a goroutine parked in a select runs as soon as one of its cases is ready:
\* the clock does not pass such a moment
SelectRuns == ResultReady \/ DoneReady

\* nobody runs a command
NoCommand ==
    /\ cmdPc = "idle"
    /\ cmdClient = None
    /\ cmdDeadline = 0
    /\ cmdHandler = "none"
    /\ cmdHandlerResult = "none"
    /\ cmdFinishedAt = 0
    /\ cmdReturn = "none"
    /\ cmdScopeLive = TRUE

(* ------------------------------ creategame ----------------------------- *)

\* a map with the entry for key set to value
Put(map, key, value) ==
    [x \in DOMAIN map \cup {key} |-> IF x = key THEN value ELSE map[x]]

\* a map without entries
EmptyMap == [x \in {} |-> None]

\* the cooldown check with a window one second short
CooldownActive_Short(host) ==
    /\ host \in DOMAIN lastCreate
    /\ now - lastCreate[host] < CREATE_SERVER_COOLDOWN - 1

\* hasLastCreate && time.Now().Sub(lastCreate) < CREATE_SERVER_COOLDOWN
CooldownActive(host) ==
    /\ host \in DOMAIN lastCreate
    /\ now - lastCreate[host] < CREATE_SERVER_COOLDOWN

\* the manager's list after RemoveServer of the host's existing server
AfterRemoveExisting(host) ==
    IF host \in DOMAIN hostServers
    THEN managerServers \ {hostServers[host]}
    ELSE managerServers

\* the spawners of the servers left in the manager's list
Restrict(map, keys) == [x \in DOMAIN map \cap keys |-> map[x]]

\* Cluster.CreateGame of the newer layer, under createMutex; fails is
\* whether NewServer returns an error
CreateGame(c, fails) ==
    /\ ~crashed
    /\ c \in state
    /\ createMutex = None
    /\ createBy' = c
    /\ createSeq' = 1 - createSeq
    /\ LET host == clientHost[c]
           new == nextServer + 1
       IN IF CooldownActive(host)
          THEN /\ createResult' = "too soon since last server create"
               /\ UNCHANGED <<lastCreate, hostServers, managerServers, nextServer,
                              lastSuccess, connectRequest, creator>>
          ELSE /\ nextServer < MaxCreated
               /\ IF fails
                  THEN /\ managerServers' = AfterRemoveExisting(host)
                       /\ creator' = Restrict(creator, AfterRemoveExisting(host))
                       /\ createResult' = "failed to create server"
                       /\ UNCHANGED <<lastCreate, hostServers, nextServer,
                                      lastSuccess, connectRequest>>
                  ELSE /\ managerServers' = AfterRemoveExisting(host) \cup {new}
                       /\ creator' = Put(Restrict(creator, AfterRemoveExisting(host)), new, c)
                       /\ nextServer' = new
                       /\ lastCreate' = Put(lastCreate, host, now)
                       /\ hostServers' = Put(hostServers, host, new)
                       /\ lastSuccess' = Put(lastSuccess, c, now)
                       /\ connectRequest' = Put(connectRequest, c, new)
                       /\ createResult' = "ok"
    /\ UNCHANGED <<now, clientHost, createMutex, pending>>
    /\ UNCHANGED callVars
    /\ UNCHANGED outsideCreate

\* Cluster.RunCommand of the older layer, case "creategame", up to the wait
\* for the server; a StartPresetServer error goes to logger.Fatal, which
\* ends the process
RunCommandCreateGame(c, fails) ==
    /\ ~crashed
    /\ c \in state
    /\ createMutex = None
    /\ createBy' = c
    /\ createSeq' = 1 - createSeq
    /\ LET host == clientHost[c]
           new == nextServer + 1
       IN IF CooldownActive(host)
          THEN /\ createResult' = "too soon since last server create"
               /\ UNCHANGED <<managerServers, nextServer, createMutex, pending,
                              crashed, creator>>
          ELSE /\ nextServer < MaxCreated
               /\ IF fails
                  THEN /\ managerServers' = AfterRemoveExisting(host)
                       /\ creator' = Restrict(creator, AfterRemoveExisting(host))
                       /\ crashed' = TRUE
                       /\ createResult' = "failed to create server"
                       /\ UNCHANGED <<nextServer, createMutex, pending>>
                  ELSE /\ managerServers' = AfterRemoveExisting(host) \cup {new}
                       /\ creator' = Put(Restrict(creator, AfterRemoveExisting(host)), new, c)
                       /\ nextServer' = new
                       /\ createMutex' = c
                       /\ pending' = new
                       /\ createResult' = "pending"
                       /\ UNCHANGED crashed
    /\ UNCHANGED <<now, clientHost, lastCreate, hostServers, lastSuccess, connectRequest>>
    /\ UNCHANGED <<callPc, callKind, callClient, callTo, callFrom, callTarget,
                   callResult, oldServer>>
    /\ UNCHANGED outsideCreate

\* RunCommand's creategame sees the server's status ServerOK
RunCommandCreateGameOK(c) ==
    /\ ~crashed
    /\ createMutex = c
    /\ lastCreate' = Put(lastCreate, clientHost[c], now)
    /\ hostServers' = Put(hostServers, clientHost[c], pending)
    /\ lastSuccess' = Put(lastSuccess, c, now)
    /\ createResult' = "ok"
    /\ createMutex' = None
    /\ pending' = None
    /\ UNCHANGED <<now, clientHost, managerServers, nextServer, createBy,
                   createSeq, connectRequest, creator>>
    /\ UNCHANGED callVars
    /\ UNCHANGED outsideCreate

\* RunCommand's creategame sees ctx.Done() first
RunCommandCreateGameTimeout(c) ==
    /\ ~crashed
    /\ createMutex = c
    /\ createResult' = "server start timed out"
    /\ createMutex' = None
    /\ pending' = None
    /\ UNCHANGED <<now, clientHost, lastCreate, hostServers, managerServers,
                   nextServer, lastSuccess, createBy, createSeq, connectRequest,
                   creator>>
    /\ UNCHANGED callVars
    /\ UNCHANGED outsideCreate

\* a second passes
Tick ==
    /\ now < MaxTime
    /\ ~SelectRuns
    /\ now' = now + 1
    /\ UNCHANGED <<clientHost, lastCreate, hostServers, managerServers,
                   nextServer, createMutex, pending, lastSuccess, createBy,
                   createResult, createSeq, connectRequest, creator>>
    /\ UNCHANGED callVars
    /\ UNCHANGED outsideCreate

\* NewCluster: empty maps, nobody in creategame
NoCreate ==
    /\ now = 0
    /\ lastCreate = EmptyMap
    /\ hostServers = EmptyMap
    /\ managerServers = {}
    /\ nextServer = 0
    /\ createMutex = None
    /\ pending = None
    /\ lastSuccess = EmptyMap
    /\ createBy = None
    /\ createResult = "none"
    /\ createSeq = 0
    /\ connectRequest = EmptyMap
    /\ creator = EmptyMap

(* ------------------------ GameServer lifecycle ------------------------- *)

\* the servers whose Start, Wait and PollEvents tasks are followed; the
\* tasks of different servers share no state
Supervised == {1}

\* a server that NewServer built and nobody started yet
IdleLife ==
    [command |-> "unstarted", listening |-> FALSE, socket |-> FALSE,
     closed |-> FALSE, ctxDone |-> FALSE,
     startPc |-> "idle", elapsed |-> 0, startTick |-> FALSE,
     exitChannel |-> 0, result |-> "none",
     healthPc |-> "idle", healthDeadline |-> 0, healthTick |-> FALSE,
     sawHealthy |-> FALSE,
     waitPc |-> "idle",
     pollPc |-> "idle", pingTicker |-> FALSE, sinceLastPong |-> 0,
     pinged |-> FALSE, answered |-> FALSE, socketWrites |-> <<>>,
     healthySent |-> FALSE,
     kills |-> 0, shutdowns |-> 0, panicked |-> FALSE]

\* what the tasks of a server leave alone
outsideLife == <<idVars, stVars, ConnectMutex, sendLog, callVars, pipeVars,
                 createVars, cmdVars, allocVars, laterVars>>

NoLife == life = [s \in Servers |-> IdleLife]

\* StartAndWait up to Start's loop: the timeout context, go server.Wait()
StartAndWait(s) ==
    /\ life[s].startPc = "idle"
    /\ ~life[s].panicked
    /\ life' = [life EXCEPT ![s].startPc = "top",
                            ![s].waitPc = "spawned"]
    /\ UNCHANGED gsStatus
    /\ UNCHANGED outsideLife

\* Wait: command.Start(), which fails or starts the child
WaitStart(s, ok) ==
    /\ life[s].waitPc = "spawned"
    /\ ~life[s].panicked
    /\ life' = IF ok
               THEN [life EXCEPT ![s].command = "running", ![s].waitPc = "waiting"]
               ELSE [life EXCEPT ![s].waitPc = "done"]
    /\ UNCHANGED gsStatus
    /\ UNCHANGED outsideLife

\* the child binds its control socket
ChildListens(s) ==
    /\ life[s].command = "running"
    /\ ~life[s].listening
    /\ life[s].shutdowns = 0
    /\ life' = [life EXCEPT ![s].listening = TRUE]
    /\ UNCHANGED gsStatus
    /\ UNCHANGED outsideLife

\* the child exits by itself, with exit code 0 or another
ChildExits(s, code) ==
    /\ life[s].command = "running"
    /\ life' = [life EXCEPT ![s].command = code, ![s].listening = FALSE]
    /\ UNCHANGED gsStatus
    /\ UNCHANGED outsideLife

\* Wait after Process.Wait() returned: the status it stores
WaitExit(s) ==
    /\ life[s].waitPc = "waiting"
    /\ life[s].command \in {"exited0", "exited1"}
    /\ ~life[s].panicked
    /\ gsStatus' = [gsStatus EXCEPT ![s] = IF life[s].command = "exited0"
                                           THEN ServerExited
                                           ELSE ServerFailure]
    /\ life' = [life EXCEPT ![s].waitPc = "done"]
    /\ UNCHANGED outsideLife

\* Start's loop: status := server.GetStatus()
StartRead(s) ==
    /\ life[s].startPc = "top"
    /\ ~life[s].panicked
    /\ life' = [life EXCEPT ![s].startPc = IF gsStatus[s] = ServerStarting
                                           THEN "connect"
                                           ELSE "select"]
    /\ UNCHANGED gsStatus
    /\ UNCHANGED outsideLife

\* Start's loop: Connect(server.path) succeeds when the child listens
StartConnect(s) ==
    /\ life[s].startPc = "connect"
    /\ ~life[s].panicked
    /\ life' = [life EXCEPT ![s].startPc = IF life[s].listening
                                           THEN "install"
                                           ELSE "select"]
    /\ UNCHANGED gsStatus
    /\ UNCHANGED outsideLife

\* Start's loop after a successful Connect: Status, socket, the two Poll
\* tasks and the send on exitChannel
StartInstall(s) ==
    /\ life[s].startPc = "install"
    /\ ~life[s].panicked
    /\ gsStatus' = [gsStatus EXCEPT ![s] = ServerStarted]
    /\ life' = [life EXCEPT ![s].socket = TRUE,
                            ![s].pollPc = "spawned",
                            ![s].exitChannel = 1,
                            ![s].startPc = "select"]
    /\ UNCHANGED outsideLife

\* the cases of Start's select that are ready
StartExitReady(s) == life[s].exitChannel = 1
StartDoneReady(s) == life[s].ctxDone \/ life[s].elapsed >= StartTimeout
StartTickReady(s) == life[s].startTick

\* case <-exitChannel: Start returns nil and StartAndWait enters
\* WaitUntilHealthy with its own timeout context
StartSelectExit(s) ==
    /\ life[s].startPc = "select"
    /\ ~life[s].panicked
    /\ StartExitReady(s)
    /\ life' = [life EXCEPT ![s].startPc = "returned",
                            ![s].exitChannel = 0,
                            ![s].healthPc = "top",
                            ![s].healthDeadline = life[s].elapsed + HealthyTimeout]
    /\ UNCHANGED gsStatus
    /\ UNCHANGED outsideLife

\* case <-timeoutCtx.Done(): Start and StartAndWait return the error
StartSelectDone(s) ==
    /\ life[s].startPc = "select"
    /\ ~life[s].panicked
    /\ StartDoneReady(s)
    /\ life' = [life EXCEPT ![s].startPc = "returned",
                            ![s].result = "starting server timed out"]
    /\ UNCHANGED gsStatus
    /\ UNCHANGED outsideLife

\* case <-tick.C: continue
StartSelectTick(s) ==
    /\ life[s].startPc = "select"
    /\ ~life[s].panicked
    /\ StartTickReady(s)
    /\ life' = [life EXCEPT ![s].startPc = "top", ![s].startTick = FALSE]
    /\ UNCHANGED gsStatus
    /\ UNCHANGED outsideLife

\* WaitUntilHealthy's loop: the status read and the return of nil
HealthyRead(s) ==
    /\ life[s].healthPc = "top"
    /\ ~life[s].panicked
    /\ life' = IF gsStatus[s] = ServerHealthy
               THEN [life EXCEPT ![s].healthPc = "returned",
                                 ![s].sawHealthy = TRUE,
                                 ![s].result = "nil"]
               ELSE [life EXCEPT ![s].healthPc = "select"]
    /\ UNCHANGED gsStatus
    /\ UNCHANGED outsideLife

\* a WaitUntilHealthy whose context carries no timeout
HealthyDoneReady_NoDeadline(s) == life[s].ctxDone

\* WaitUntilHealthy's timeoutCtx is done: the caller's context is, or the
\* timeout has passed
HealthyDoneReady(s) ==
    life[s].ctxDone \/ life[s].elapsed >= life[s].healthDeadline

\* WaitUntilHealthy: case <-timeoutCtx.Done()
HealthySelectDone(s) ==
    /\ life[s].healthPc = "select"
    /\ ~life[s].panicked
    /\ HealthyDoneReady(s)
    /\ life' = [life EXCEPT ![s].healthPc = "returned",
                            ![s].result = "starting server timed out"]
    /\ UNCHANGED gsStatus
    /\ UNCHANGED outsideLife

\* WaitUntilHealthy: case <-tick.C
HealthySelectTick(s) ==
    /\ life[s].healthPc = "select"
    /\ ~life[s].panicked
    /\ life[s].healthTick
    /\ life' = [life EXCEPT ![s].healthPc = "top", ![s].healthTick = FALSE]
    /\ UNCHANGED gsStatus
    /\ UNCHANGED outsideLife

\* PollEvents before its loop: the ticker, lastPong and the first SendPing
PollEventsStart(s) ==
    /\ life[s].pollPc = "spawned"
    /\ ~life[s].panicked
    /\ life' = [life EXCEPT ![s].pollPc = "select",
                            ![s].pingTicker = FALSE,
                            ![s].sinceLastPong = 0,
                            ![s].pinged = TRUE]
    /\ UNCHANGED gsStatus
    /\ UNCHANGED outsideLife

\* PollEvents: case <-ctx.Done()
PollEventsDone(s) ==
    /\ life[s].pollPc = "select"
    /\ ~life[s].panicked
    /\ life[s].ctxDone
    /\ life' = [life EXCEPT ![s].pollPc = "returned"]
    /\ UNCHANGED gsStatus
    /\ UNCHANGED outsideLife

\* time.Now().Sub(lastPong) > 2*pingInterval
PongOverdue(s) == life[s].sinceLastPong > 2 * pingInterval

\* PollEvents: case <-pingTicker.C
PollEventsPing(s) ==
    /\ life[s].pollPc = "select"
    /\ ~life[s].panicked
    /\ life[s].pingTicker
    /\ IF PongOverdue(s)
       THEN /\ gsStatus' = [gsStatus EXCEPT ![s] = ServerFailure]
            /\ life' = [life EXCEPT ![s].pollPc = "returned",
                                    ![s].pingTicker = FALSE]
       ELSE /\ life' = [life EXCEPT ![s].pingTicker = FALSE,
                                    ![s].pinged = TRUE]
            /\ UNCHANGED gsStatus
    /\ UNCHANGED outsideLife

\* PollEvents: case msg := <-socketWrites, for the two supervision events
PollEventsMessage(s) ==
    /\ life[s].pollPc = "select"
    /\ ~life[s].panicked
    /\ life[s].socketWrites # <<>>
    /\ LET eventType == Head(life[s].socketWrites) IN
         IF eventType = "SERVER_EVENT_HEALTHY"
         THEN /\ gsStatus' = [gsStatus EXCEPT ![s] = ServerHealthy]
              /\ life' = [life EXCEPT ![s].socketWrites = Tail(@)]
         ELSE /\ life' = [life EXCEPT ![s].socketWrites = Tail(@),
                                      ![s].sinceLastPong = 0]
              /\ UNCHANGED gsStatus
    /\ UNCHANGED outsideLife

\* the child, connected, reports that it is healthy
ChildHealthy(s) ==
    /\ life[s].command = "running"
    /\ life[s].socket /\ ~life[s].closed
    /\ ~life[s].healthySent
    /\ Len(life[s].socketWrites) < MaxEvents
    /\ life' = [life EXCEPT ![s].healthySent = TRUE,
                            ![s].socketWrites = Append(@, "SERVER_EVENT_HEALTHY")]
    /\ UNCHANGED gsStatus
    /\ UNCHANGED outsideLife

\* the child answers a ping that was sent to it
ChildPong(s) ==
    /\ life[s].command = "running"
    /\ life[s].socket /\ ~life[s].closed
    /\ life[s].pinged
    /\ Len(life[s].socketWrites) < MaxEvents
    /\ life' = [life EXCEPT ![s].answered = TRUE,
                            ![s].socketWrites = Append(@, "SERVER_EVENT_PONG")]
    /\ UNCHANGED gsStatus
    /\ UNCHANGED outsideLife

\* the caller of StartAndWait cancels the context it passed
CancelStart(s) ==
    /\ life[s].startPc # "idle"
    /\ ~life[s].ctxDone
    /\ ~life[s].panicked
    /\ life' = [life EXCEPT ![s].ctxDone = TRUE]
    /\ UNCHANGED gsStatus
    /\ UNCHANGED outsideLife

\* Shutdown: if status != ServerHealthy { server.command.Process.Kill() }
KillsIn(status) == status # ServerHealthy

\* GameServer.Shutdown: the kill (Process is nil until command.Start
\* succeeded), the close of the socket, the removal of the socket file
Shutdown(s) ==
    /\ life[s].startPc # "idle"
    /\ life[s].shutdowns < MaxShutdowns
    /\ ~life[s].panicked
    /\ IF KillsIn(gsStatus[s]) /\ life[s].command = "unstarted"
       THEN life' = [life EXCEPT ![s].panicked = TRUE,
                                 ![s].shutdowns = @ + 1]
       ELSE life' = [life EXCEPT
                ![s].shutdowns = @ + 1,
                ![s].kills = IF KillsIn(gsStatus[s]) /\ life[s].command = "running"
                             THEN @ + 1 ELSE @,
                ![s].command = IF KillsIn(gsStatus[s]) /\ @ = "running"
                               THEN "exited1" ELSE @,
                ![s].closed = @ \/ life[s].socket,
                ![s].listening = FALSE]
    /\ UNCHANGED gsStatus
    /\ UNCHANGED outsideLife

\* a task of the server can take a step now: it runs before time passes
Runnable(s) ==
    /\ ~life[s].panicked
    /\ \/ life[s].startPc \in {"top", "connect", "install"}
       \/ /\ life[s].startPc = "select"
          /\ StartExitReady(s) \/ StartDoneReady(s) \/ StartTickReady(s)
       \/ life[s].healthPc = "top"
       \/ /\ life[s].healthPc = "select"
          /\ HealthyDoneReady(s) \/ life[s].healthTick
       \/ life[s].pollPc = "spawned"
       \/ /\ life[s].pollPc = "select"
          /\ life[s].ctxDone \/ life[s].pingTicker \/ life[s].socketWrites # <<>>

\* StartAndWait has been called and has not returned, in a process that
\* is still there
Pending(s) ==
    life[s].startPc # "idle" /\ life[s].result = "none" /\ ~life[s].panicked

\* one ping interval passes, any number of them within a timer unit: the
\* time since PollEvents' lastPong grows and every live ticker, Start's and
\* WaitUntilHealthy's faster ones too, has a tick to deliver
PingInterval ==
    /\ \A s \in Supervised : ~Runnable(s)
    /\ \E s \in Supervised :
          "select" \in {life[s].startPc, life[s].healthPc, life[s].pollPc}
    /\ life' = [s \in Servers |->
                  [life[s] EXCEPT
                     !.sinceLastPong = IF life[s].pollPc = "select"
                                       THEN @ + pingInterval ELSE @,
                     !.startTick = life[s].startPc = "select",
                     !.healthTick = life[s].healthPc = "select",
                     !.pingTicker = life[s].pollPc = "select"]]
    /\ UNCHANGED gsStatus
    /\ UNCHANGED outsideLife

\* one timer unit passes: the time since the call of a pending StartAndWait
\* grows
ClockTick ==
    /\ \A s \in Supervised : ~Runnable(s)
    /\ \E s \in Supervised : Pending(s)
    /\ \A s \in Supervised : Pending(s) => life[s].elapsed < MaxElapsed
    /\ life' = [s \in Servers |->
                  [life[s] EXCEPT !.elapsed = IF Pending(s) THEN @ + 1 ELSE @]]
    /\ UNCHANGED gsStatus
    /\ UNCHANGED outsideLife

\* a server started by StartAndWait, its child, and a caller of Shutdown
NextLife ==
    \/ \E s \in Supervised : StartAndWait(s)
    \/ \E s \in Supervised, ok \in BOOLEAN : WaitStart(s, ok)
    \/ \E s \in Supervised : ChildListens(s)
    \/ \E s \in Supervised, code \in {"exited0", "exited1"} : ChildExits(s, code)
    \/ \E s \in Supervised : WaitExit(s)
    \/ \E s \in Supervised : StartRead(s)
    \/ \E s \in Supervised : StartConnect(s)
    \/ \E s \in Supervised : StartInstall(s)
    \/ \E s \in Supervised : StartSelectExit(s)
    \/ \E s \in Supervised : StartSelectDone(s)
    \/ \E s \in Supervised : StartSelectTick(s)
    \/ \E s \in Supervised : HealthyRead(s)
    \/ \E s \in Supervised : HealthySelectDone(s)
    \/ \E s \in Supervised : HealthySelectTick(s)
    \/ \E s \in Supervised : PollEventsStart(s)
    \/ \E s \in Supervised : PollEventsDone(s)
    \/ \E s \in Supervised : PollEventsPing(s)
    \/ \E s \in Supervised : PollEventsMessage(s)
    \/ \E s \in Supervised : ChildHealthy(s)
    \/ \E s \in Supervised : ChildPong(s)
    \/ \E s \in Supervised : CancelStart(s)
    \/ \E s \in Supervised : Shutdown(s)
    \/ PingInterval
    \/ ClockTick

(* --------------------------- manager.Manager --------------------------- *)

\* what NewServer leaves alone
outsideAlloc == <<idVars, stVars, gsVars, callVars, pipeVars, createVars,
                  cmdVars, lifeVars, laterVars>>

\* NewManager: no record, nobody in NewServer, no socket file
NoAlloc ==
    /\ marshalServers = <<>>
    /\ marshalMutex = None
    /\ newPc = [t \in Tasks |-> "idle"]
    /\ newPort = [t \in Tasks |-> 0]
    /\ newId = [t \in Tasks |-> 0]
    /\ socketFiles = {}

\* the ports FindPort's loop visits: minPort, minPort + 2, ... below maxPort
PortRange == {port \in minPort .. (maxPort - 1) : (port - minPort) % 2 = 0}

\* the first 8 hex digits of sha256("<port>-<number>"): a fixed function of
\* the pair with fewer digits than the pair has, so distinct pairs can meet
Hash(port, number) == (port + number) % HashSpace

\* the ports of the manager's records
RecordPorts == {marshalServers[i].Port : i \in 1 .. Len(marshalServers)}

\* FindPort: the ports it does not skip, given those the system says are
\* unavailable
FreePorts(busy) == {port \in PortRange : port \notin RecordPorts /\ port \notin busy}

\* FindPort: the first such port
FindPort(busy) == CHOOSE port \in FreePorts(busy) : \A q \in FreePorts(busy) : port <= q

\* a task calls NewServer and reaches marshal.mutex.Lock()
NewServerCall(t) ==
    /\ newPc[t] = "idle"
    /\ newPc' = [newPc EXCEPT ![t] = "waiting"]
    /\ UNCHANGED <<marshalServers, marshalMutex, newPort, newId, socketFiles>>
    /\ UNCHANGED outsideAlloc

\* a NewServer that does not take marshal.mutex
NewServerLock_NoMutex(t) ==
    /\ newPc[t] = "waiting"
    /\ newPc' = [newPc EXCEPT ![t] = "locked"]
    /\ UNCHANGED <<marshalServers, marshalMutex, newPort, newId, socketFiles>>
    /\ UNCHANGED outsideAlloc

\* NewServer: marshal.mutex.Lock()
NewServerLock(t) ==
    /\ newPc[t] = "waiting"
    /\ marshalMutex = None
    /\ marshalMutex' = t
    /\ newPc' = [newPc EXCEPT ![t] = "locked"]
    /\ UNCHANGED <<marshalServers, newPort, newId, socketFiles>>
    /\ UNCHANGED outsideAlloc

\* NewServer: FindPort, and the return of its error with the deferred Unlock
NewServerFindPort(t, busy) ==
    /\ newPc[t] = "locked"
    /\ IF FreePorts(busy) = {}
       THEN /\ newPc' = [newPc EXCEPT ![t] = "idle"]
            /\ marshalMutex' = IF marshalMutex = t THEN None ELSE marshalMutex
            /\ UNCHANGED newPort
       ELSE /\ newPort' = [newPort EXCEPT ![t] = FindPort(busy)]
            /\ newPc' = [newPc EXCEPT ![t] = "ported"]
            /\ UNCHANGED marshalMutex
    /\ UNCHANGED <<marshalServers, newId, socketFiles>>
    /\ UNCHANGED outsideAlloc

\* NewServer: FindIdentity's loop, one candidate; it is drawn again when a
\* file exists at its path
NewServerFindIdentity(t, number) ==
    /\ newPc[t] = "ported"
    /\ LET hash == Hash(newPort[t], number) IN
         IF hash \in socketFiles
         THEN UNCHANGED <<newId, newPc>>
         ELSE /\ newId' = [newId EXCEPT ![t] = hash]
              /\ newPc' = [newPc EXCEPT ![t] = "identified"]
    /\ UNCHANGED <<marshalServers, marshalMutex, newPort, socketFiles>>
    /\ UNCHANGED outsideAlloc

\* NewServer: the record is appended and the deferred Unlock runs
NewServerAppend(t) ==
    /\ newPc[t] = "identified"
    /\ marshalServers' = Append(marshalServers, [Port |-> newPort[t], Id |-> newId[t]])
    /\ marshalMutex' = IF marshalMutex = t THEN None ELSE marshalMutex
    /\ newPc' = [newPc EXCEPT ![t] = "idle"]
    /\ UNCHANGED <<newPort, newId, socketFiles>>
    /\ UNCHANGED outsideAlloc

\* the child of a record, started by Monitor, binds its control socket
\* and so creates the file at the record's path
ChildBinds(i) ==
    /\ i \in 1 .. Len(marshalServers)
    /\ marshalServers[i].Id \notin socketFiles
    /\ socketFiles' = socketFiles \cup {marshalServers[i].Id}
    /\ UNCHANGED <<marshalServers, marshalMutex, newPc, newPort, newId>>
    /\ UNCHANGED outsideAlloc

(* ------------------------- FindPort, its loop -------------------------- *)

\* what FindPort's loop leaves alone
outsideScan ==
    <<clusterVars, readVars, matchVars, duelVars, sendVars, codecVars,
      handleVars, listVars, castVars, ackVars, depVars>>

\* nobody is in FindPort
NoScan ==
    /\ scanPc = "idle"
    /\ scanMin = 0
    /\ scanMax = 0
    /\ scanPort = 0
    /\ scanWrapped = FALSE
    /\ scanResult = "none"

\* FindPort is called on a manager made by NewManager(_, lo, hi):
\* port := marshal.minPort
FindPortCall(lo, hi) ==
    /\ scanPc = "idle"
    /\ scanPc' = "loop"
    /\ scanMin' = lo
    /\ scanMax' = hi
    /\ scanPort' = lo
    /\ UNCHANGED <<scanWrapped, scanResult>>
    /\ UNCHANGED outsideScan

\* one turn of the loop: the test port < marshal.maxPort, the candidate
\* taken when no record has it and IsPortAvailable says so, port += 2
FindPortStep(free) ==
    /\ scanPc = "loop"
    /\ IF ~(scanPort < scanMax)
       THEN /\ scanPc' = "returned"
            /\ scanResult' = "Failed to find port in range"
            /\ UNCHANGED <<scanPort, scanWrapped>>
       ELSE IF free
       THEN /\ scanPc' = "returned"
            /\ scanResult' = "port"
            /\ UNCHANGED <<scanPort, scanWrapped>>
       ELSE /\ scanPort' = (scanPort + 2) % PortModulus
            /\ scanWrapped' = (scanWrapped \/ scanPort + 2 >= PortModulus)
            /\ UNCHANGED <<scanPc, scanResult>>
    /\ UNCHANGED <<scanMin, scanMax>>
    /\ UNCHANGED outsideScan

(* -------------------- the control socket, read side -------------------- *)

\* what the reader leaves alone
outsideRead ==
    <<clusterVars, scanVars, matchVars, duelVars, sendVars, codecVars,
      handleVars, listVars, castVars, ackVars, depVars>>

\* nothing written, nothing read
NoRead ==
    /\ readWritten = <<>>
    /\ readPending = <<>>
    /\ readChunks = <<>>
    /\ readYield = <<>>
    /\ readPanicked = FALSE

\* the event codes on the wire: a client packet, and the child's report
\* that it is healthy
SERVER_EVENT_PACKET == 0
SERVER_EVENT_HEALTHY == 1

Bytes == 0 .. (ByteSpace - 1)

\* the sequences over a set up to a length
SeqsTo(S, n) == UNION {[1 .. k -> S] : k \in 0 .. n}

\* the events a child writes
ServerEvents ==
    {[type |-> SERVER_EVENT_HEALTHY, id |-> 0, chan |-> 0, data |-> <<>>]}
      \cup [type : {SERVER_EVENT_PACKET}, id : Bytes, chan : Bytes,
            data : SeqsTo(Bytes, MaxData)]

\* the bytes of one event as the child writes it: the type, and for a
\* packet the payload length, the client, the channel and the payload
Encode(event) ==
    IF event.type = SERVER_EVENT_HEALTHY
    THEN <<event.type>>
    ELSE <<event.type, Len(event.data), event.id, event.chan>> \o event.data

RECURSIVE Wire(_)
\* the byte stream of a sequence of events
Wire(events) ==
    IF events = <<>> THEN <<>> ELSE Encode(Head(events)) \o Wire(Tail(events))

\* Packet.GetUint: the next value of the packet, if there is one
GetUint(p) == [ok |-> p # <<>>, value |-> IF p = <<>> THEN 0 ELSE Head(p),
               rest |-> IF p = <<>> THEN <<>> ELSE Tail(p)]

RECURSIVE Decode(_)
\* PollEvents' loop over one message of socketWrites: the events it hands
\* on, and whether data := p[:numBytes] ran past the end of the message
Decode(p) ==
    IF p = <<>> THEN [events |-> <<>>, panicked |-> FALSE]
    ELSE LET type_ == GetUint(p) IN
         IF type_.value = SERVER_EVENT_HEALTHY
         THEN LET more == Decode(type_.rest) IN
              [events |-> <<[type |-> SERVER_EVENT_HEALTHY, id |-> 0, chan |-> 0,
                             data |-> <<>>]>> \o more.events,
               panicked |-> more.panicked]
         ELSE LET numBytes == GetUint(type_.rest)
                  id == GetUint(numBytes.rest)
                  chan_ == GetUint(id.rest)
              IN IF ~numBytes.ok \/ ~id.ok \/ ~chan_.ok
                 THEN [events |-> <<>>, panicked |-> FALSE]
                 ELSE IF numBytes.value > Len(chan_.rest)
                 THEN [events |-> <<>>, panicked |-> TRUE]
                 ELSE LET more == Decode(SubSeq(chan_.rest, numBytes.value + 1,
                                                Len(chan_.rest)))
                      IN [events |-> <<[type |-> type_.value, id |-> id.value,
                                        chan |-> chan_.value,
                                        data |-> SubSeq(chan_.rest, 1, numBytes.value)]>>
                                       \o more.events,
                          panicked |-> more.panicked]

\* the child writes events on the control socket
ChildWrites(events) ==
    /\ readWritten = <<>>
    /\ events # <<>>
    /\ readWritten' = events
    /\ readPending' = Wire(events)
    /\ UNCHANGED <<readChunks, readYield, readPanicked>>
    /\ UNCHANGED outsideRead

\* PollReads: one Read of the stream socket returns the next n bytes, which
\* go to socketWrites as one message
PollReadsRead(n) ==
    /\ ~readPanicked
    /\ n \in 1 .. Len(readPending)
    /\ Len(readChunks) < MaxChunks
    /\ readChunks' = Append(readChunks, SubSeq(readPending, 1, n))
    /\ readPending' = SubSeq(readPending, n + 1, Len(readPending))
    /\ UNCHANGED <<readWritten, readYield, readPanicked>>
    /\ UNCHANGED outsideRead

\* PollEvents: case msg := <-socketWrites, the whole loop over the message
PollEventsDecode ==
    /\ ~readPanicked
    /\ readChunks # <<>>
    /\ LET decoded == Decode(Head(readChunks)) IN
         /\ readYield' = readYield \o decoded.events
         /\ readPanicked' = decoded.panicked
    /\ readChunks' = Tail(readChunks)
    /\ UNCHANGED <<readWritten, readPending>>
    /\ UNCHANGED outsideRead

(* ------------------------------ Matchmaker ----------------------------- *)

Players == 1 .. MaxPlayers

\* what the matchmaker's queue leaves alone
outsideMatch ==
    <<clusterVars, scanVars, readVars, duelVars, sendVars, codecVars,
      handleVars, listVars, castVars, ackVars, depVars>>

\* NewMatchmaker, and Poll not yet at its first pass
NoMatch ==
    /\ queue = <<>>
    /\ joinClock = 1
    /\ gone = {}
    /\ passQueue = <<>>
    /\ passDuels = <<>>
    /\ passes = 0

\* Matchmaker.Queue
Queue(client) ==
    /\ joinClock <= MaxQueued
    /\ client \notin gone
    /\ queue' = Append(queue, [client |-> client, joinTime |-> joinClock])
    /\ joinClock' = joinClock + 1
    /\ UNCHANGED <<gone, passQueue, passDuels, passes>>
    /\ UNCHANGED outsideMatch

\* a session's connection ends
PlayerDisconnects(client) ==
    /\ client \notin gone
    /\ gone' = gone \cup {client}
    /\ UNCHANGED <<queue, joinClock, passQueue, passDuels, passes>>
    /\ UNCHANGED outsideMatch

\* Poll's first loop: the entries of sessions that are still connected
Pruned(q) == SelectSeq(q, LAMBDA queued : queued.client \notin gone)

RECURSIVE InnerLoop(_, _, _, _)
\* Poll's loop over queuedB for one queuedA, from entry j on: the matched
\* map and the duels started when it ends
InnerLoop(q, queuedA, j, acc) ==
    IF j > Len(q) THEN acc
    ELSE LET queuedB == q[j] IN
         IF queuedB.client \in acc.matched \/ queuedA = queuedB
         THEN InnerLoop(q, queuedA, j + 1, acc)
         ELSE InnerLoop(q, queuedA, j + 1,
                        [matched |-> acc.matched \cup {queuedA.client, queuedB.client},
                         duels |-> Append(acc.duels, <<queuedA.client, queuedB.client>>)])

RECURSIVE OuterLoop(_, _, _)
\* Poll's loop over queuedA, from entry i on
OuterLoop(q, i, acc) ==
    IF i > Len(q) THEN acc
    ELSE IF q[i].client \in acc.matched
    THEN OuterLoop(q, i + 1, acc)
    ELSE OuterLoop(q, i + 1, InnerLoop(q, q[i], 1, acc))

\* Poll's matching over a pruned queue
Matches(q) == OuterLoop(q, 1, [matched |-> {}, duels |-> <<>>])

\* one pass of Poll under m.mutex: prune, match, start the duels, remove
\* the matched entries
PollPass ==
    /\ passes < MaxPasses
    /\ LET cleaned == Pruned(queue)
           made == Matches(cleaned)
       IN /\ passQueue' = cleaned
          /\ passDuels' = made.duels
          /\ queue' = SelectSeq(cleaned, LAMBDA queued : queued.client \notin made.matched)
    /\ passes' = passes + 1
    /\ UNCHANGED <<joinClock, gone>>
    /\ UNCHANGED outsideMatch

(* ---------------------------- Matchmaker.Duel -------------------------- *)

\* clientA and clientB of a duel
Duelists == {"A", "B"}

\* what a duel leaves alone
outsideDuel ==
    <<clusterVars, scanVars, readVars, matchVars, sendVars, codecVars,
      handleVars, listVars, castVars, ackVars, depVars>>

\* no duel yet
NoDuel ==
    /\ duel = [pc |-> "idle", matchDone |-> FALSE, mover |-> "A",
               server |-> "none", count |-> 0,
               scoreA |-> 0, scoreB |-> 0, scorer |-> FALSE,
               sessionGone |-> [x \in Duelists |-> FALSE],
               newGone |-> [x \in Duelists |-> FALSE],
               moved |-> [x \in Duelists |-> FALSE],
               sessionWatch |-> [x \in Duelists |-> "none"],
               serverWatch |-> [x \in Duelists |-> "none"],
               reconnects |-> {},
               roundReset |-> FALSE, roundCountdown |-> FALSE,
               roundSession |-> FALSE, overtime |-> FALSE]
    /\ exited = FALSE

\* the scopes of the duelists that have ended
Leaves ==
    Cardinality({x \in Duelists : duel.sessionGone[x]})
        + Cardinality({x \in Duelists : duel.newGone[x]})

\* abs
abs(x, y) == IF x < y THEN y - x ELSE x - y

\* a duel that two points decide
MarginReached_Two(a, b) == abs(a, b) >= WinMargin - 1

\* the overtime loop's test: abs(overtimeA, overtimeB) >= 3
MarginReached(a, b) == abs(a, b) >= WinMargin

\* Duel up to NewServer: matchContext, and the two watchers of the
\* clients' session contexts
DuelStart ==
    /\ ~exited
    /\ duel.pc = "idle"
    /\ duel' = [duel EXCEPT !.pc = "newserver",
                            !.sessionWatch = [x \in Duelists |-> "live"]]
    /\ UNCHANGED exited
    /\ UNCHANGED outsideDuel

\* m.manager.NewServer(ctx, "1v1"); logger.Fatal when it fails
DuelNewServer(ok) ==
    /\ ~exited
    /\ duel.pc = "newserver"
    /\ IF ok
       THEN /\ duel' = [duel EXCEPT !.pc = "startwait", !.server = "created"]
            /\ UNCHANGED exited
       ELSE /\ exited' = TRUE
            /\ UNCHANGED duel
    /\ UNCHANGED outsideDuel

\* gameServer.StartAndWait(ctx); logger.Fatal when it fails
DuelStartAndWait(ok) ==
    /\ ~exited
    /\ duel.pc = "startwait"
    /\ IF ok
       THEN /\ duel' = [duel EXCEPT !.pc = "checkA", !.server = "running"]
            /\ UNCHANGED exited
       ELSE /\ exited' = TRUE
            /\ UNCHANGED duel
    /\ UNCHANGED outsideDuel

\* Duel returns: the deferred cancelMatch (and BroadcastUnsubscribe) run
Returned(d) == [d EXCEPT !.pc = "returned", !.matchDone = TRUE]

\* if matchContext.Err() != nil { return }, before and after the moves
DuelCheckContext ==
    /\ ~exited
    /\ duel.pc \in {"checkA", "checkB"}
    /\ duel' = IF duel.matchDone THEN Returned(duel)
               ELSE IF duel.pc = "checkA"
               THEN [duel EXCEPT !.pc = "spawn", !.mover = "A"]
               ELSE [duel EXCEPT !.pc = "warmup"]
    /\ UNCHANGED exited
    /\ UNCHANGED outsideDuel

\* the move of one client: oldServer is stored and the watcher of its
\* server session context is started
DuelMoveSpawn ==
    /\ ~exited
    /\ duel.pc = "spawn"
    /\ duel' = [duel EXCEPT !.pc = "connect",
                            !.serverWatch[duel.mover] = "spawned"]
    /\ UNCHANGED exited
    /\ UNCHANGED outsideDuel

\* m.clients.ConnectClient(gameServer, client): a scope on the duel server
\* replaces the client's scope on its old server, which nothing cancels
DuelMoveConnect ==
    /\ ~exited
    /\ duel.pc = "connect"
    /\ duel' = [duel EXCEPT !.pc = "wait", !.moved[duel.mover] = TRUE]
    /\ UNCHANGED exited
    /\ UNCHANGED outsideDuel

\* m.clients.WaitUntilConnected(ctx, client); logger.Fatal on its error
DuelMoveWait(ok) ==
    /\ ~exited
    /\ duel.pc = "wait"
    /\ IF ok
       THEN /\ duel' = IF duel.mover = "A"
                       THEN [duel EXCEPT !.pc = "spawn", !.mover = "B"]
                       ELSE [duel EXCEPT !.pc = "checkB"]
            /\ UNCHANGED exited
       ELSE /\ exited' = TRUE
            /\ UNCHANGED duel
    /\ UNCHANGED outsideDuel

\* DoSession returns, its 10 s over or matchContext done: after the warmup
\* the broadcasts are subscribed to and the first countdown starts
DuelSessionOver ==
    /\ ~exited
    /\ duel.pc \in {"warmup", "session", "overSession"}
    /\ duel' = IF duel.pc = "warmup"
               THEN [duel EXCEPT !.pc = "countdown", !.count = CountdownSeconds,
                                 !.scorer = TRUE]
               ELSE [duel EXCEPT !.pc = "check", !.roundSession = TRUE]
    /\ UNCHANGED exited
    /\ UNCHANGED outsideDuel

\* DoCountdown's select: a tick of its ticker, or matchContext.Done() when
\* done is taken
DuelCountdown(done) ==
    /\ ~exited
    /\ duel.pc \in {"countdown", "overCountdown"}
    /\ done => duel.matchDone
    /\ LET next == IF duel.pc = "countdown" THEN "session" ELSE "overSession" IN
         duel' = IF done THEN [duel EXCEPT !.pc = next]
                 ELSE IF duel.count = 0
                 THEN [duel EXCEPT !.pc = next, !.roundCountdown = TRUE]
                 ELSE [duel EXCEPT !.count = @ - 1]
    /\ UNCHANGED exited
    /\ UNCHANGED outsideDuel

\* the overtime loop's head: the scores are read; the loop is left, or
\* OVERTIME is broadcast, the players are reset and a countdown starts
DuelOvertimeCheck ==
    /\ ~exited
    /\ duel.pc = "check"
    /\ duel' = IF MarginReached(duel.scoreA, duel.scoreB)
               THEN [duel EXCEPT !.pc = "ended"]
               ELSE [duel EXCEPT !.pc = "overCountdown",
                                 !.count = CountdownSeconds,
                                 !.overtime = TRUE,
                                 !.roundReset = TRUE,
                                 !.roundCountdown = FALSE,
                                 !.roundSession = FALSE]
    /\ UNCHANGED exited
    /\ UNCHANGED outsideDuel

\* "match ended" is logged and Duel returns
DuelEnd ==
    /\ ~exited
    /\ duel.pc = "ended"
    /\ duel' = Returned(duel)
    /\ UNCHANGED exited
    /\ UNCHANGED outsideDuel

\* the game on the duel server is paused: between "pausegame 1" and
\* "pausegame 0" nobody dies
Paused ==
    duel.pc \in {"checkA", "spawn", "connect", "wait", "checkB",
                 "countdown", "overCountdown"}

\* the score task: an N_DIED broadcast of one of the two clients sets the
\* other's score to its Frags
ScoreEvent(x, frags) ==
    /\ ~exited
    /\ duel.scorer
    /\ ~Paused
    /\ duel' = IF x = "A" THEN [duel EXCEPT !.scoreB = frags]
                          ELSE [duel EXCEPT !.scoreA = frags]
    /\ UNCHANGED exited
    /\ UNCHANGED outsideDuel

\* the score task: case <-matchContext.Done()
ScoreTaskDone ==
    /\ ~exited
    /\ duel.scorer
    /\ duel.matchDone
    /\ duel' = [duel EXCEPT !.scorer = FALSE]
    /\ UNCHANGED exited
    /\ UNCHANGED outsideDuel

\* a duelist's connection to the cluster ends: its session context is done
DuelistLeavesCluster(x) ==
    /\ ~exited
    /\ duel.pc \notin {"idle", "returned"}
    /\ ~duel.sessionGone[x]
    /\ Leaves < MaxLeaves
    /\ duel' = [duel EXCEPT !.sessionGone[x] = TRUE]
    /\ UNCHANGED exited
    /\ UNCHANGED outsideDuel

\* a duelist is disconnected from the duel server: its scope there is done
DuelistLeavesServer(x) ==
    /\ ~exited
    /\ duel.pc \notin {"idle", "returned"}
    /\ duel.moved[x]
    /\ ~duel.newGone[x]
    /\ Leaves < MaxLeaves
    /\ duel' = [duel EXCEPT !.newGone[x] = TRUE]
    /\ UNCHANGED exited
    /\ UNCHANGED outsideDuel

\* the watcher of a client's session context: its select
SessionWatcher(x) ==
    /\ ~exited
    /\ duel.sessionWatch[x] = "live"
    /\ duel.matchDone \/ duel.sessionGone[x]
    /\ \/ /\ duel.matchDone
          /\ duel' = [duel EXCEPT !.sessionWatch[x] = "done"]
       \/ /\ duel.sessionGone[x]
          /\ duel' = [duel EXCEPT !.sessionWatch[x] = "done", !.matchDone = TRUE]
    /\ UNCHANGED exited
    /\ UNCHANGED outsideDuel

\* the watcher of a client's server session context reaches its select and
\* evaluates state.ServerSessionContext(): the scope on the old server, or
\* the one on the duel server when ConnectClient has already made it
ServerWatcherBinds(x) ==
    /\ ~exited
    /\ duel.serverWatch[x] = "spawned"
    /\ duel' = [duel EXCEPT !.serverWatch[x] = IF duel.moved[x] THEN "new" ELSE "old"]
    /\ UNCHANGED exited
    /\ UNCHANGED outsideDuel

\* the scope a server watcher waits on is done: both are children of the
\* client's session context
WatchedScopeDone(x) ==
    \/ duel.sessionGone[x]
    \/ duel.serverWatch[x] = "new" /\ duel.newGone[x]

\* the watcher of a client's server session context: its select, which
\* sends the client back to oldServer or cancels the match
ServerWatcher(x) ==
    /\ ~exited
    /\ duel.serverWatch[x] \in {"old", "new"}
    /\ \/ /\ duel.matchDone
          /\ duel' = [duel EXCEPT !.serverWatch[x] = "done",
                                  !.reconnects = @ \cup {x}]
       \/ /\ WatchedScopeDone(x)
          /\ duel' = [duel EXCEPT !.serverWatch[x] = "done", !.matchDone = TRUE]
    /\ UNCHANGED exited
    /\ UNCHANGED outsideDuel

\* the steps of the Duel task itself
DuelTask ==
    \/ DuelStart
    \/ \E ok \in BOOLEAN : DuelNewServer(ok)
    \/ \E ok \in BOOLEAN : DuelStartAndWait(ok)
    \/ DuelCheckContext
    \/ DuelMoveSpawn
    \/ DuelMoveConnect
    \/ \E ok \in BOOLEAN : DuelMoveWait(ok)
    \/ DuelSessionOver
    \/ \E done \in BOOLEAN : DuelCountdown(done)
    \/ DuelOvertimeCheck
    \/ DuelEnd

\* the steps of the tasks Duel starts
DuelWatchers ==
    \/ \E x \in Duelists : SessionWatcher(x)
    \/ \E x \in Duelists : ServerWatcherBinds(x)
    \/ \E x \in Duelists : ServerWatcher(x)
    \/ ScoreTaskDone

(* ------------------------------ MapSender ------------------------------ *)

\* what the map sender leaves alone
outsideSend ==
    <<clusterVars, scanVars, readVars, matchVars, duelVars, codecVars,
      handleVars, listVars, castVars, ackVars, depVars>>

\* NewMapSender: no client is handled
NoSend ==
    /\ handling = FALSE
    /\ sendPc = "idle"
    /\ sendSteps = <<>>
    /\ userAccepted = 0
    /\ demoRequested = 0
    /\ requested = FALSE
    /\ scopeDone = FALSE
    /\ watcher = "idle"

\* the client has answered the map change with a MapCRC of crc 0:
\* MapSender.SendMap enters it in m.Clients and starts its two tasks
SendMap ==
    /\ sendPc = "idle"
    /\ ~scopeDone
    /\ handling' = TRUE
    /\ sendPc' = "begin"
    /\ watcher' = "waiting"
    /\ UNCHANGED <<sendSteps, userAccepted, demoRequested, requested, scopeDone>>
    /\ UNCHANGED outsideSend

\* Send returns an error
SendFails ==
    /\ sendPc' = "failed"
    /\ UNCHANGED <<handling, sendSteps, userAccepted, demoRequested, requested,
                   scopeDone, watcher>>

\* Send goes on to the position pc after the steps done
SendGoes(pc, done) ==
    /\ sendPc' = pc
    /\ sendSteps' = sendSteps \o done
    /\ UNCHANGED <<handling, requested, scopeDone, watcher>>

\* Send up to the proxy map: the pause, the map change, FindMap,
\* MakeDownloadMap and N_SENDMAP, which the client acknowledges or not
SendProxyMap(ok) ==
    /\ sendPc = "begin"
    /\ IF scopeDone \/ ~ok
       THEN SendFails
       ELSE /\ SendGoes("download", <<"SendMap">>)
            /\ UNCHANGED <<userAccepted, demoRequested>>
    /\ UNCHANGED outsideSend

\* the desktop map is downloaded and the instruction is posted
SendInstruction(ok) ==
    /\ sendPc = "download"
    /\ IF scopeDone \/ ~ok
       THEN SendFails
       ELSE /\ SendGoes("accept", <<"instruction">>)
            /\ UNCHANGED <<userAccepted, demoRequested>>
    /\ UNCHANGED outsideSend

\* the select on userAccepted and doCtx.Done(), whose 30 s may be over;
\* then the respawn and the move onto the first teleporter
SendAwaitUser(timeout) ==
    /\ sendPc = "accept"
    /\ \/ /\ userAccepted > 0
          /\ userAccepted' = userAccepted - 1
          /\ SendGoes("demo", <<"teleport1">>)
          /\ UNCHANGED demoRequested
       \/ /\ scopeDone \/ timeout
          /\ SendFails
    /\ UNCHANGED outsideSend

\* a Send that does not wait for the client's request
SendAwaitDemo_NoWait ==
    /\ sendPc = "demo"
    /\ SendGoes("read", <<"demoRequest">>)
    /\ UNCHANGED <<userAccepted, demoRequested>>
    /\ UNCHANGED outsideSend

\* the select on demoRequested and sendCtx.Done()
SendAwaitDemo ==
    /\ sendPc = "demo"
    /\ \/ /\ demoRequested > 0
          /\ demoRequested' = demoRequested - 1
          /\ SendGoes("read", <<"demoRequest">>)
          /\ UNCHANGED userAccepted
       \/ /\ scopeDone
          /\ SendFails
    /\ UNCHANGED outsideSend

\* the file is read and sent with N_SENDDEMO, which the client
\* acknowledges or not
SendDemoBytes(ok) ==
    /\ sendPc = "read"
    /\ IF ~ok
       THEN SendFails
       ELSE /\ SendGoes("moved", <<"SendDemo">>)
            /\ UNCHANGED <<userAccepted, demoRequested>>
    /\ UNCHANGED outsideSend

\* the pause and the move onto the second teleporter
SendSecondMove ==
    /\ sendPc = "moved"
    /\ IF scopeDone
       THEN SendFails
       ELSE /\ SendGoes("last", <<"teleport2">>)
            /\ UNCHANGED <<userAccepted, demoRequested>>
    /\ UNCHANGED outsideSend

\* the last test of sendCtx; Send returns nil
SendReturns ==
    /\ sendPc = "last"
    /\ IF scopeDone
       THEN SendFails
       ELSE /\ SendGoes("succeeded", <<>>)
            /\ UNCHANGED <<userAccepted, demoRequested>>
    /\ UNCHANGED outsideSend

\* the second task's select takes Send's result from out, which ends the
\* first task: the entry is deleted and the client reconnected to its
\* server when the result is nil
WatcherReceives ==
    /\ watcher = "waiting"
    /\ sendPc \in {"failed", "succeeded"}
    /\ watcher' = "done"
    /\ sendPc' = "terminated"
    /\ IF sendPc = "succeeded"
       THEN /\ handling' = FALSE
            /\ sendSteps' = Append(sendSteps, "reattach")
       ELSE UNCHANGED <<handling, sendSteps>>
    /\ UNCHANGED <<userAccepted, demoRequested, requested, scopeDone>>
    /\ UNCHANGED outsideSend

\* the second task's select takes client.ServerSessionContext().Done()
WatcherLeaves ==
    /\ watcher = "waiting"
    /\ scopeDone
    /\ watcher' = "done"
    /\ UNCHANGED <<handling, sendPc, sendSteps, userAccepted, demoRequested,
                   requested, scopeDone>>
    /\ UNCHANGED outsideSend

\* MapSender.TriggerSend: the user has run the command of the instruction
TriggerSend ==
    /\ handling
    /\ userAccepted = 0
    /\ userAccepted' = 1
    /\ UNCHANGED <<handling, sendPc, sendSteps, demoRequested, requested,
                   scopeDone, watcher>>
    /\ UNCHANGED outsideSend

\* MapSender.SendDemo: the client has sent N_GETDEMO
SendDemo ==
    /\ handling
    /\ demoRequested = 0
    /\ demoRequested' = 1
    /\ requested' = TRUE
    /\ UNCHANGED <<handling, sendPc, sendSteps, userAccepted, scopeDone, watcher>>
    /\ UNCHANGED outsideSend

\* the client is disconnected from its server or from the cluster
SendScopeCancelled ==
    /\ sendPc # "idle"
    /\ ~scopeDone
    /\ scopeDone' = TRUE
    /\ UNCHANGED <<handling, sendPc, sendSteps, userAccepted, demoRequested,
                   requested, watcher>>
    /\ UNCHANGED outsideSend

\* the steps of SendState.Send
SendTask ==
    \/ \E ok \in BOOLEAN : SendProxyMap(ok)
    \/ \E ok \in BOOLEAN : SendInstruction(ok)
    \/ \E timeout \in BOOLEAN : SendAwaitUser(timeout)
    \/ SendAwaitDemo
    \/ \E ok \in BOOLEAN : SendDemoBytes(ok)
    \/ SendSecondMove
    \/ SendReturns

\* the steps of the task that waits for it
SendWatcher ==
    \/ WatcherReceives
    \/ WatcherLeaves

(* -------------------------- Marshal, Unmarshal ------------------------- *)

\* what the codec leaves alone
outsideCodec ==
    <<clusterVars, scanVars, readVars, matchVars, duelVars, sendVars,
      handleVars, listVars, castVars, ackVars, depVars>>

\* the integers of a message's fields
Ints == -1 .. MaxInt

\* Hit, of which the first two fields are kept
Hit == [Target : Ints, Lifesequence : Ints]

\* Explode, the N_EXPLODE message: three integers and a counted array
Explode == [Cmillis : Ints, Gun : Ints, Id : Ints, Hits : SeqsTo(Hit, MaxHits)]

\* no message yet
NoCodec ==
    /\ codecPc = "idle"
    /\ msgIn = [Cmillis |-> 0, Gun |-> 0, Id |-> 0, Hits |-> <<>>]
    /\ codecBytes = <<>>
    /\ msgOut = [ok |-> FALSE, value |-> [Cmillis |-> 0, Gun |-> 0, Id |-> 0, Hits |-> <<>>]]

\* Packet.PutInt of a small integer: one byte, two's complement
PutInt(v) == <<(v + ByteValues) % ByteValues>>

\* Packet.GetInt: the next integer of the packet, if there is one
GetInt(p) ==
    IF p = <<>> THEN [ok |-> FALSE, value |-> 0, rest |-> p]
    ELSE [ok |-> TRUE,
          value |-> IF Head(p) >= ByteValues \div 2 THEN Head(p) - ByteValues ELSE Head(p),
          rest |-> Tail(p)]

\* marshalValue of a slice: no case of the switch takes it, so it returns
\* an error and nothing is written
marshalSlice(slice) == [err |-> TRUE, bytes |-> <<>>]

\* marshalValue of an Explode: its fields one after the other, the error
\* of a field dropped
marshalValue(m) ==
    [err |-> FALSE,
     bytes |-> PutInt(m.Cmillis) \o PutInt(m.Gun) \o PutInt(m.Id)
                 \o marshalSlice(m.Hits).bytes]

\* unmarshalStruct of a Hit
unmarshalHit(p) ==
    LET target == GetInt(p)
        lifesequence == GetInt(target.rest) IN
      [ok |-> target.ok /\ lifesequence.ok,
       value |-> [Target |-> target.value, Lifesequence |-> lifesequence.value],
       rest |-> lifesequence.rest]

RECURSIVE unmarshalCount(_, _, _)
\* the loop over the elements of a counted array: reflect.Append's result
\* is dropped, so the slice stays as MakeSlice made it
unmarshalCount(p, numElements, slice) ==
    IF numElements <= 0 THEN [ok |-> TRUE, value |-> slice, rest |-> p]
    ELSE LET entry == unmarshalHit(p) IN
         IF ~entry.ok THEN [ok |-> FALSE, value |-> slice, rest |-> entry.rest]
         ELSE unmarshalCount(entry.rest, numElements - 1, slice)

\* unmarshalStruct of an Explode
unmarshalStruct(p) ==
    LET cmillis == GetInt(p)
        gun == GetInt(cmillis.rest)
        id == GetInt(gun.rest)
        number == GetInt(id.rest)
        hits == unmarshalCount(number.rest, number.value, <<>>) IN
      [ok |-> cmillis.ok /\ gun.ok /\ id.ok /\ number.ok /\ hits.ok,
       value |-> [Cmillis |-> cmillis.value, Gun |-> gun.value, Id |-> id.value,
                  Hits |-> hits.value]]

\* Marshal(p, m) on an empty packet
Marshal(m) ==
    /\ codecPc = "idle"
    /\ msgIn' = m
    /\ codecBytes' = marshalValue(m).bytes
    /\ codecPc' = "marshalled"
    /\ UNCHANGED msgOut
    /\ UNCHANGED outsideCodec

\* Unmarshal(p, &m) on the bytes Marshal has written
Unmarshal ==
    /\ codecPc = "marshalled"
    /\ msgOut' = unmarshalStruct(codecBytes)
    /\ codecPc' = "unmarshalled"
    /\ UNCHANGED <<msgIn, codecBytes>>
    /\ UNCHANGED outsideCodec

(* ---------------------------- ServerCommands --------------------------- *)

\* what the server's commands leave alone
outsideHandle ==
    <<clusterVars, scanVars, readVars, matchVars, duelVars, sendVars, codecVars,
      listVars, castVars, ackVars, depVars>>

\* no call yet
NoHandle == handleLog = <<>>

\* role.ID, in its order
RoleRank == [None |-> 0, Master |-> 1, Auth |-> 2, Admin |-> 3]

\* the roles a client can have
Roles == {"None", "Master", "Auth", "Admin"}

\* the commands registered, with their minRole
MinRole == [keepteams |-> "Master", competitive |-> "Master",
            reportstats |-> "Admin", settime |-> "Admin"]

\* sc.byAlias: the names and aliases, each with its command
ByAlias == [keepteams |-> "keepteams", persist |-> "keepteams",
            competitive |-> "competitive", comp |-> "competitive",
            reportstats |-> "reportstats", repstats |-> "reportstats",
            settime |-> "settime", time |-> "settime"]

\* the first words of the texts clients send
CommandWords == DOMAIN ByAlias \cup {"help", "commands", "nope"}

\* the words that may follow
CommandArgs == {<<>>, <<"settime">>, <<"nope">>}

\* Handle's switch: the handler that runs and the message Handle itself
\* sends to the client
HandleOutcome(clientRole, command, args) ==
    IF command \in {"help", "commands"}
    THEN IF args = <<>> THEN [ran |-> "none", sent |-> "available commands"]
         ELSE IF args[1] \in DOMAIN ByAlias THEN [ran |-> "none", sent |-> "detailed"]
         ELSE [ran |-> "none", sent |-> "unknown command"]
    ELSE IF command \notin DOMAIN ByAlias
    THEN [ran |-> "none", sent |-> "unknown command"]
    ELSE IF RoleRank[clientRole] < RoleRank[MinRole[ByAlias[command]]]
    THEN [ran |-> "none", sent |-> "none"]
    ELSE [ran |-> ByAlias[command], sent |-> "none"]

\* ServerCommands.Handle(c, msg)
Handle(clientRole, command, args) ==
    /\ Len(handleLog) < MaxHandles
    /\ handleLog' = Append(handleLog,
           [role |-> clientRole, command |-> command, args |-> args,
            outcome |-> HandleOutcome(clientRole, command, args)])
    /\ UNCHANGED outsideHandle

(* -------------------- the game server's ClientManager ------------------ *)

\* what the game server's client list leaves alone
outsideList ==
    <<clusterVars, scanVars, readVars, matchVars, duelVars, sendVars, codecVars,
      handleVars, castVars, ackVars, depVars>>

\* no client yet
NoList ==
    /\ cmClients = <<>>
    /\ cmAdded = 0

\* ClientManager.Add: the new client's CN is the length of the list
Add ==
    /\ cmAdded < MaxAdds
    /\ cmAdded' = cmAdded + 1
    /\ cmClients' = Append(cmClients, [CN |-> Len(cmClients), SessionID |-> cmAdded + 1])
    /\ UNCHANGED outsideList

\* ClientManager.Disconnect(c): the list without c, the others in order
Disconnect(i) ==
    /\ i \in DOMAIN cmClients
    /\ cmClients' = SelectSeq(cmClients, LAMBDA client : client # cmClients[i])
    /\ UNCHANGED cmAdded
    /\ UNCHANGED outsideList

\* ClientManager.GetClientByCN: the entry at index cn, nil out of range
GetClientByCN(cn) ==
    IF cn < 0 \/ cn >= Len(cmClients)
    THEN [CN |-> None, SessionID |-> None]
    ELSE cmClients[cn + 1]

(* ------------------------------ broadcasts ----------------------------- *)

\* what the broadcasts leave alone
outsideCast ==
    <<clusterVars, scanVars, readVars, matchVars, duelVars, sendVars, codecVars,
      handleVars, listVars, ackVars, depVars>>

\* a server nobody has subscribed to
NoCast ==
    /\ castLoop = "select"
    /\ castMutex = "free"
    /\ castQueued = FALSE
    /\ castChannel = 0
    /\ castSubscribed = FALSE
    /\ castDraining = FALSE
    /\ castUnsub = "idle"
    /\ castPong = FALSE

\* GameServer.BroadcastSubscribe, and the task that receives from the
\* channel, as Duel starts it
BroadcastSubscribe ==
    /\ castUnsub = "idle"
    /\ ~castSubscribed
    /\ castMutex = "free"
    /\ castSubscribed' = TRUE
    /\ castDraining' = TRUE
    /\ UNCHANGED <<castLoop, castMutex, castQueued, castChannel, castUnsub, castPong>>
    /\ UNCHANGED outsideCast

\* DecodeMessages hands a decoded broadcast of the child to server.broadcasts
DecodeMessages ==
    /\ ~castQueued
    /\ castQueued' = TRUE
    /\ UNCHANGED <<castLoop, castMutex, castChannel, castSubscribed, castDraining,
                   castUnsub, castPong>>
    /\ UNCHANGED outsideCast

\* PollEvents: case broadcast := <-server.broadcasts, up to the lock
PollEventsBroadcast ==
    /\ castLoop = "select"
    /\ castQueued
    /\ castMutex = "free"
    /\ castQueued' = FALSE
    /\ castMutex' = "PollEvents"
    /\ castLoop' = "fanout"
    /\ UNCHANGED <<castChannel, castSubscribed, castDraining, castUnsub, castPong>>
    /\ UNCHANGED outsideCast

\* PollEvents: subscriber <- broadcast for every subscriber, under the lock;
\* the send waits while the channel is full
PollEventsFanOut ==
    /\ castLoop = "fanout"
    /\ castSubscribed => castChannel < SubscriberSlots
    /\ castChannel' = IF castSubscribed THEN castChannel + 1 ELSE castChannel
    /\ castMutex' = "free"
    /\ castLoop' = "select"
    /\ UNCHANGED <<castQueued, castSubscribed, castDraining, castUnsub, castPong>>
    /\ UNCHANGED outsideCast

\* the child answers a ping
ChildPongs ==
    /\ ~castPong
    /\ castPong' = TRUE
    /\ UNCHANGED <<castLoop, castMutex, castQueued, castChannel, castSubscribed,
                   castDraining, castUnsub>>
    /\ UNCHANGED outsideCast

\* PollEvents: case msg := <-socketWrites with a pong
PollEventsPong ==
    /\ castLoop = "select"
    /\ castPong
    /\ castPong' = FALSE
    /\ UNCHANGED <<castLoop, castMutex, castQueued, castChannel, castSubscribed,
                   castDraining, castUnsub>>
    /\ UNCHANGED outsideCast

\* the subscriber's task receives a broadcast
SubscriberReceives ==
    /\ castDraining
    /\ castChannel > 0
    /\ castChannel' = castChannel - 1
    /\ UNCHANGED <<castLoop, castMutex, castQueued, castSubscribed, castDraining,
                   castUnsub, castPong>>
    /\ UNCHANGED outsideCast

\* the subscriber's task returns: case <-matchContext.Done()
SubscriberStops ==
    /\ castDraining
    /\ castDraining' = FALSE
    /\ UNCHANGED <<castLoop, castMutex, castQueued, castChannel, castSubscribed,
                   castUnsub, castPong>>
    /\ UNCHANGED outsideCast

\* Duel returns and its deferred BroadcastUnsubscribe is called
BroadcastUnsubscribeCall ==
    /\ castSubscribed
    /\ ~castDraining
    /\ castUnsub = "idle"
    /\ castUnsub' = "waiting"
    /\ UNCHANGED <<castLoop, castMutex, castQueued, castChannel, castSubscribed,
                   castDraining, castPong>>
    /\ UNCHANGED outsideCast

\* BroadcastUnsubscribe from its Lock to its Unlock
BroadcastUnsubscribe ==
    /\ castUnsub = "waiting"
    /\ castMutex = "free"
    /\ castSubscribed' = FALSE
    /\ castUnsub' = "done"
    /\ UNCHANGED <<castLoop, castMutex, castQueued, castChannel, castDraining, castPong>>
    /\ UNCHANGED outsideCast

\* the steps of PollEvents' loop
PollEventsLoop ==
    \/ PollEventsBroadcast
    \/ PollEventsFanOut
    \/ PollEventsPong

(* ------------------------------ ENetClient ----------------------------- *)

\* what the ENet client leaves alone
outsideAck ==
    <<clusterVars, scanVars, readVars, matchVars, duelVars, sendVars, codecVars,
      handleVars, listVars, castVars, depVars>>

Sends == 1 .. MaxSends

\* a client nothing was sent to
NoAck ==
    /\ ackContextDone = FALSE
    /\ ackPolling = TRUE
    /\ ackQueue = <<>>
    /\ ackPc = [i \in Sends |-> "idle"]
    /\ ackDone = [i \in Sends |-> <<>>]
    /\ ackCaller = [i \in Sends |-> "none"]

\* ENetClient.Send, called by SendClientSync (which then receives from the
\* channel) or by a caller that drops the channel
ENetSend(i, sync) ==
    /\ ackPc[i] = "idle"
    /\ \A j \in Sends : j < i => ackPc[j] # "idle"
    /\ Len(ackQueue) < CLIENT_MESSAGE_LIMIT
    /\ ackQueue' = Append(ackQueue, i)
    /\ ackPc' = [ackPc EXCEPT ![i] = "queued"]
    /\ ackCaller' = [ackCaller EXCEPT ![i] = IF sync THEN "waiting" ELSE "dropped"]
    /\ UNCHANGED <<ackContextDone, ackPolling, ackDone>>
    /\ UNCHANGED outsideAck

\* ENetClient.Poll: case packetACK := <-c.toClient, peer.Send, go func
ENetPollTake ==
    /\ ackPolling
    /\ ackQueue # <<>>
    /\ ackPc' = [ackPc EXCEPT ![Head(ackQueue)] = "sent"]
    /\ ackQueue' = Tail(ackQueue)
    /\ UNCHANGED <<ackContextDone, ackPolling, ackDone, ackCaller>>
    /\ UNCHANGED outsideAck

\* ENetClient.Poll: case <-ctx.Done(): return
ENetPollReturn ==
    /\ ackPolling
    /\ ackContextDone
    /\ ackPolling' = FALSE
    /\ UNCHANGED <<ackContextDone, ackQueue, ackPc, ackDone, ackCaller>>
    /\ UNCHANGED outsideAck

\* the peer disconnects, or ENetClient.Disconnect: the client's cancel()
ENetDisconnect ==
    /\ ~ackContextDone
    /\ ackContextDone' = TRUE
    /\ UNCHANGED <<ackPolling, ackQueue, ackPc, ackDone, ackCaller>>
    /\ UNCHANGED outsideAck

\* Poll's goroutine: case result := <-done: packetACK.Done <- result
ENetAck(i, result) ==
    /\ ackPc[i] = "sent"
    /\ ackPc' = [ackPc EXCEPT ![i] = "done"]
    /\ ackDone' = [ackDone EXCEPT ![i] = Append(@, result)]
    /\ UNCHANGED <<ackContextDone, ackPolling, ackQueue, ackCaller>>
    /\ UNCHANGED outsideAck

\* Poll's goroutine: case <-timeout.Done(): packetACK.Done <- false, after
\* ten seconds or when the client's context is cancelled
ENetAckTimeout(i) ==
    /\ ackPc[i] = "sent"
    /\ ackPc' = [ackPc EXCEPT ![i] = "done"]
    /\ ackDone' = [ackDone EXCEPT ![i] = Append(@, FALSE)]
    /\ UNCHANGED <<ackContextDone, ackPolling, ackQueue, ackCaller>>
    /\ UNCHANGED outsideAck

\* SendClientSync: <-s.SendClient(data, channel)
SendClientSync(i) ==
    /\ ackCaller[i] = "waiting"
    /\ ackDone[i] # <<>>
    /\ ackCaller' = [ackCaller EXCEPT ![i] = IF Head(ackDone[i]) THEN "nil" ELSE "error"]
    /\ ackDone' = [ackDone EXCEPT ![i] = Tail(@)]
    /\ UNCHANGED <<ackContextDone, ackPolling, ackQueue, ackPc>>
    /\ UNCHANGED outsideAck

\* the tasks of the client
ENetTasks ==
    \/ ENetPollTake
    \/ \E i \in Sends : ENetAck(i, TRUE) \/ ENetAckTimeout(i)
    \/ \E i \in Sends : SendClientSync(i)

(* --------------------------- ServerDeployment -------------------------- *)

\* what the deployment leaves alone
outsideDep ==
    <<clusterVars, scanVars, readVars, matchVars, duelVars, sendVars, codecVars,
      handleVars, listVars, castVars, ackVars>>

\* the handler channels of a deployment
Handlers == {"configurer", "migrator"}

\* a deployment that was not started
NoDep ==
    /\ depPc = "idle"
    /\ depMutex = "free"
    /\ depConfigurer = FALSE
    /\ depServer = 0
    /\ depStarts = 0
    /\ depHeld = [h \in Handlers |-> "none"]
    /\ depResult = "none"
    /\ getPc = "idle"

\* ServerDeployment.Configure
Configure ==
    /\ ~depConfigurer
    /\ depMutex = "free"
    /\ depConfigurer' = TRUE
    /\ UNCHANGED <<depPc, depMutex, depServer, depStarts, depHeld, depResult, getPc>>
    /\ UNCHANGED outsideDep

\* Start, or watch when the server's context is done, calls startServer,
\* which takes the mutex
startServerLock ==
    /\ depPc = "idle"
    /\ depResult # "error"
    /\ depStarts < MaxStarts
    /\ depMutex = "free"
    /\ depMutex' = "startServer"
    /\ depStarts' = depStarts + 1
    /\ depPc' = "NewServer"
    /\ UNCHANGED <<depConfigurer, depServer, depHeld, depResult, getPc>>
    /\ UNCHANGED outsideDep

\* startServer returns: the deferred Unlock
startServerReturns(result) ==
    /\ depPc' = "idle"
    /\ depMutex' = "free"
    /\ depResult' = result

\* startServer: NewServer, and the return of its error
startServerNewServer(ok) ==
    /\ depPc = "NewServer"
    /\ IF ok
       THEN /\ depPc' = "StartAndWait"
            /\ UNCHANGED <<depMutex, depResult>>
       ELSE startServerReturns("error")
    /\ UNCHANGED <<depConfigurer, depServer, depStarts, depHeld, getPc>>
    /\ UNCHANGED outsideDep

\* the handler startServer turns to next
AfterStart == IF depConfigurer THEN "send configurer" ELSE "send migrator"

\* startServer: server.StartAndWait(ctx), and the return of its error
startServerStartAndWait(ok) ==
    /\ depPc = "StartAndWait"
    /\ IF ok
       THEN /\ depPc' = AfterStart
            /\ UNCHANGED <<depMutex, depResult>>
       ELSE startServerReturns("error")
    /\ UNCHANGED <<depConfigurer, depServer, depStarts, depHeld, getPc>>
    /\ UNCHANGED outsideDep

\* handleDeployment: handler <- DeploymentEvent{...} on a channel without
\* buffer, taken by a task that receives from the channel
handleDeploymentSend(h) ==
    /\ depPc = "send " \o h
    /\ depHeld[h] = "none"
    /\ depHeld' = [depHeld EXCEPT ![h] = "event"]
    /\ depPc' = "wait " \o h
    /\ UNCHANGED <<depMutex, depConfigurer, depServer, depStarts, depResult, getPc>>
    /\ UNCHANGED outsideDep

\* startServer after a handler is done: the next handler, or s.server = server
\* and return nil
startServerAfter(h) ==
    IF h = "configurer"
    THEN /\ depPc' = "send migrator"
         /\ UNCHANGED <<depMutex, depResult, depServer>>
    ELSE /\ startServerReturns("nil")
         /\ depServer' = depServer + 1

\* handleDeployment: case <-done, the receiver's event.Done <- true
handleDeploymentDone(h) ==
    /\ depPc = "wait " \o h
    /\ depHeld[h] = "event"
    /\ depHeld' = [depHeld EXCEPT ![h] = "none"]
    /\ startServerAfter(h)
    /\ UNCHANGED <<depConfigurer, depStarts, getPc>>
    /\ UNCHANGED outsideDep

\* handleDeployment: case <-timeoutCtx.Done() after 15 s, and startServer's
\* return of the error; a receiver that answers later stays in its send
handleDeploymentTimeout(h) ==
    /\ depPc = "wait " \o h
    /\ depHeld' = [depHeld EXCEPT ![h] = IF @ = "event" THEN "late" ELSE @]
    /\ startServerReturns("error")
    /\ UNCHANGED <<depConfigurer, depServer, depStarts, getPc>>
    /\ UNCHANGED outsideDep

\* somebody calls GetServer
GetServerCall ==
    /\ getPc # "Lock"
    /\ getPc' = "Lock"
    /\ UNCHANGED <<depPc, depMutex, depConfigurer, depServer, depStarts, depHeld, depResult>>
    /\ UNCHANGED outsideDep

\* ServerDeployment.GetServer from its Lock to its Unlock
GetServer ==
    /\ getPc = "Lock"
    /\ depMutex = "free"
    /\ getPc' = "returned"
    /\ UNCHANGED <<depPc, depMutex, depConfigurer, depServer, depStarts, depHeld, depResult>>
    /\ UNCHANGED outsideDep

\* the steps startServer takes on its own
startServer ==
    \/ startServerLock
    \/ \E ok \in BOOLEAN : startServerNewServer(ok) \/ startServerStartAndWait(ok)
    \/ \E h \in Handlers : handleDeploymentTimeout(h)

\* every part followed on its own is at rest
NoLater ==
    /\ NoScan
    /\ NoRead
    /\ NoMatch
    /\ NoDuel
    /\ NoSend
    /\ NoCodec
    /\ NoHandle
    /\ NoList
    /\ NoCast
    /\ NoAck
    /\ NoDep

(* --------------------------- specifications --------------------------- *)

\* the state after NewClientManager and NewCluster: no client, no call
Init ==
    /\ state = {}
    /\ clientId = [c \in Clients |-> 0]
    /\ newClients = <<>>
    /\ polled = {}
    /\ created = {}
    /\ addPc = [t \in Tasks |-> "idle"]
    /\ addClient = [t \in Tasks |-> None]
    /\ addDraw = [t \in Tasks |-> 0]
    /\ attempts = [t \in Tasks |-> 0]
    /\ removing = {}
    /\ Server = [c \in Clients |-> None]
    /\ Status = [c \in Clients |-> ClientStatusConnecting]
    /\ serverSessionCtx = [c \in Clients |-> None]
    /\ cancel = [c \in Clients |-> None]
    /\ stateMutex = [c \in Clients |-> None]
    /\ scopes = <<>>
    /\ sessionDone = [c \in Clients |-> FALSE]
    /\ networkStatus = [c \in Clients |-> ClientNetworkStatusConnected]
    /\ gsStatus = [s \in Servers |-> ServerStarting]
    /\ ConnectMutex = [s \in Servers |-> FALSE]
    /\ sendLog = <<>>
    /\ callPc = [k \in Calls |-> "idle"]
    /\ callKind = [k \in Calls |-> "none"]
    /\ callClient = [k \in Calls |-> None]
    /\ callTo = [k \in Calls |-> None]
    /\ callFrom = [k \in Calls |-> None]
    /\ callTarget = [k \in Calls |-> None]
    /\ callResult = [k \in Calls |-> "none"]
    /\ oldServer = [c \in Clients |-> None]
    /\ crashed = FALSE
    /\ toServer = [c \in Clients |-> <<>>]
    /\ incoming = <<>>
    /\ written = [s \in Servers |-> 0]
    /\ nextSeq = 0
    /\ handled = NoPacket
    /\ NoCreate
    /\ NoCommand
    /\ NoLife
    /\ NoAlloc
    /\ NoLater
    /\ clientHost = [c \in Clients |-> 1]

\* the ingress tasks and the manager: AddClient, RemoveClient, PollClients
NextIds ==
    \/ \E t \in Tasks, c \in Clients : AddClientCall(t, c)
    \/ \E t \in Tasks : NewClientIDDraw(t)
    \/ \E t \in Tasks : NewClientIDFail(t)
    \/ \E t \in Tasks : AddClientInsert(t)
    \/ PollClients
    \/ \E c \in Clients : RemoveClientDisconnect(c)
    \/ \E c \in Clients : RemoveClientDelete(c)

SpecIds == Init /\ [][NextIds]_vars

\* one session accepted (id 0) and its session task started; the session is
\* either fresh or already attached to server 1 by a ConnectClient that the
\* server confirmed; server 2 has one of the given statuses
InitConnWith(statuses) ==
    /\ state = {1}
    /\ clientId = [c \in Clients |-> 0]
    /\ newClients = <<>>
    /\ polled = {1}
    /\ created = {1}
    /\ addPc = [t \in Tasks |-> "idle"]
    /\ addClient = [t \in Tasks |-> None]
    /\ addDraw = [t \in Tasks |-> 0]
    /\ attempts = [t \in Tasks |-> 0]
    /\ removing = {}
    /\ \E attached \in BOOLEAN :
         /\ Server = [c \in Clients |-> IF attached /\ c = 1 THEN 1 ELSE None]
         /\ Status = [c \in Clients |-> IF attached /\ c = 1
                                        THEN ClientStatusConnected
                                        ELSE ClientStatusConnecting]
         /\ serverSessionCtx = [c \in Clients |-> IF attached /\ c = 1 THEN 1 ELSE None]
         /\ cancel = [c \in Clients |-> IF attached /\ c = 1 THEN 1 ELSE None]
         /\ scopes = IF attached THEN <<[owner |-> 1, cancelled |-> FALSE]>> ELSE <<>>
         /\ sendLog = IF attached
                      THEN <<[server |-> 1, event |-> "Connect", id |-> 0, by |-> 0,
                              data |-> <<>>]>>
                      ELSE <<>>
    /\ stateMutex = [c \in Clients |-> None]
    /\ sessionDone = [c \in Clients |-> FALSE]
    /\ networkStatus = [c \in Clients |-> ClientNetworkStatusConnected]
    /\ gsStatus \in {f \in [Servers -> {ServerHealthy} \cup statuses] :
                        \A s \in Servers : s # 2 => f[s] = ServerHealthy}
    /\ ConnectMutex = [s \in Servers |-> FALSE]
    /\ callPc = [k \in Calls |-> "idle"]
    /\ callKind = [k \in Calls |-> "none"]
    /\ callClient = [k \in Calls |-> None]
    /\ callTo = [k \in Calls |-> None]
    /\ callFrom = [k \in Calls |-> None]
    /\ callTarget = [k \in Calls |-> None]
    /\ callResult = [k \in Calls |-> "none"]
    /\ oldServer = [c \in Clients |-> IF c = 1 THEN 1 ELSE None]
    /\ crashed = FALSE
    /\ toServer = [c \in Clients |-> <<>>]
    /\ incoming = <<>>
    /\ written = [s \in Servers |-> 0]
    /\ nextSeq = 0
    /\ handled = NoPacket
    /\ NoCreate
    /\ NoCommand
    /\ NoLife
    /\ NoAlloc
    /\ NoLater
    /\ clientHost = [c \in Clients |-> 1]

\* server 2 is healthy or has failed
InitConn == InitConnWith({ServerFailure})

\* server 2 is at any point of its life
InitAttach ==
    InitConnWith({ServerStarting, ServerStarted, ServerFailure, ServerExited})

\* attaching sessions to servers and detaching them
NextConn ==
    \/ \E k \in Calls, c \in Clients, s \in Servers : ConnectClient(k, c, s)
    \/ \E k \in Calls, c \in Clients, s \in Servers : RunCommandJoin(k, c, s)
    \/ \E k \in Calls : ConnectClientLock(k)
    \/ \E k \in Calls : ConnectClientInstall(k)
    \/ \E k \in Calls : ConnectClientSend(k)
    \/ \E k \in Calls : ConnectWaitStart(k)
    \/ \E k \in Calls : ConnectWaitConnected(k)
    \/ \E k \in Calls : ConnectWaitTimeout(k)
    \/ \E k \in Calls, c \in Clients, s \in Servers : MoveClient(k, c, s)
    \/ \E c \in Clients : ClientDisconnected(c)
    \/ \E c \in Clients : RemoveClientDisconnect(c)
    \/ \E c \in Clients : RemoveClientDelete(c)
    \/ \E c \in Clients : SessionCancel(c)
    \/ \E c \in Clients : Destroy(c)
    \/ \E c \in Clients : ServerConfirmsConnect(c)

SpecConn == InitConn /\ [][NextConn]_vars

\* the same tasks beside a server that is not healthy yet or no more
SpecAttach == InitAttach /\ [][NextConn]_vars

\* the session task of the newer layer: packets through the interception
\* taps to the attached server, while ConnectClient attaches the session
NextUser ==
    \/ \E k \in Calls, c \in Clients, s \in Servers : ConnectClient(k, c, s)
    \/ \E k \in Calls : ConnectClientLock(k)
    \/ \E k \in Calls : ConnectClientInstall(k)
    \/ \E k \in Calls : ConnectClientSend(k)
    \/ \E k \in Calls : ConnectWaitStart(k)
    \/ \E k \in Calls : ConnectWaitConnected(k)
    \/ \E k \in Calls : ConnectWaitTimeout(k)
    \/ \E c \in Clients : ServerConfirmsConnect(c)
    \/ \E c \in Clients, kinds \in SeqsUpTo(MessageKinds, MaxMessages), ok \in BOOLEAN :
          ReceivePacket(c, kinds, ok)
    \/ \E c \in Clients : PollUserToServer(c)

SpecUser == InitConn /\ [][NextUser]_vars

\* the session task of the older layer and the servers' writers, while
\* ConnectClient attaches the session
NextPackets ==
    \/ \E k \in Calls, c \in Clients, s \in Servers : ConnectClient(k, c, s)
    \/ \E k \in Calls : ConnectClientLock(k)
    \/ \E k \in Calls : ConnectClientInstall(k)
    \/ \E k \in Calls : ConnectClientSend(k)
    \/ \E k \in Calls : ConnectWaitStart(k)
    \/ \E k \in Calls : ConnectWaitConnected(k)
    \/ \E k \in Calls : ConnectWaitTimeout(k)
    \/ \E c \in Clients : ServerConfirmsConnect(c)
    \/ \E c \in Clients, kinds \in SeqsUpTo(MessageKinds, MaxMessages), ok \in BOOLEAN :
          ReceivePacket(c, kinds, ok)
    \/ \E c \in Clients : PollClientToServer(c)
    \/ \E s \in Servers : PollWrites(s)

SpecPackets == InitConn /\ [][NextPackets]_vars

\* the packet path alone, from the ingress to the servers, through either
\* layer's session task
NextOrder ==
    \/ \E c \in Clients, kinds \in SeqsUpTo(MessageKinds, MaxMessages), ok \in BOOLEAN :
          ReceivePacket(c, kinds, ok)
    \/ \E c \in Clients : PollUserToServer(c)
    \/ \E c \in Clients : PollClientToServer(c)
    \/ \E s \in Servers : PollWrites(s)

SpecOrder == InitConn /\ [][NextOrder]_vars

\* every session accepted, none attached, each connected from some host
\* (hosts numbered in the order of their first client)
InitCreate ==
    /\ state = Clients
    /\ clientId = [c \in Clients |-> (c - 1) % IdSpace]
    /\ newClients = <<>>
    /\ polled = Clients
    /\ created = Clients
    /\ addPc = [t \in Tasks |-> "idle"]
    /\ addClient = [t \in Tasks |-> None]
    /\ addDraw = [t \in Tasks |-> 0]
    /\ attempts = [t \in Tasks |-> 0]
    /\ removing = {}
    /\ Server = [c \in Clients |-> None]
    /\ Status = [c \in Clients |-> ClientStatusConnecting]
    /\ serverSessionCtx = [c \in Clients |-> None]
    /\ cancel = [c \in Clients |-> None]
    /\ stateMutex = [c \in Clients |-> None]
    /\ scopes = <<>>
    /\ sessionDone = [c \in Clients |-> FALSE]
    /\ networkStatus = [c \in Clients |-> ClientNetworkStatusConnected]
    /\ gsStatus = [s \in Servers |-> ServerStarting]
    /\ ConnectMutex = [s \in Servers |-> FALSE]
    /\ sendLog = <<>>
    /\ callPc = [k \in Calls |-> "idle"]
    /\ callKind = [k \in Calls |-> "none"]
    /\ callClient = [k \in Calls |-> None]
    /\ callTo = [k \in Calls |-> None]
    /\ callFrom = [k \in Calls |-> None]
    /\ callTarget = [k \in Calls |-> None]
    /\ callResult = [k \in Calls |-> "none"]
    /\ oldServer = [c \in Clients |-> None]
    /\ crashed = FALSE
    /\ toServer = [c \in Clients |-> <<>>]
    /\ incoming = <<>>
    /\ written = [s \in Servers |-> 0]
    /\ nextSeq = 0
    /\ handled = NoPacket
    /\ NoCreate
    /\ NoCommand
    /\ NoLife
    /\ NoAlloc
    /\ NoLater
    /\ clientHost \in {f \in [Clients -> Hosts] :
                         \A c \in Clients : f[c] = 1 \/ \E d \in 1 .. (c - 1) : f[d] >= f[c] - 1}

\* creategame by either layer, and the clock
NextCreate ==
    \/ \E c \in Clients, fails \in BOOLEAN : CreateGame(c, fails)
    \/ \E c \in Clients, fails \in BOOLEAN : RunCommandCreateGame(c, fails)
    \/ \E c \in Clients : RunCommandCreateGameOK(c)
    \/ \E c \in Clients : RunCommandCreateGameTimeout(c)
    \/ Tick

SpecCreate == InitCreate /\ [][NextCreate]_vars

\* a command run under runCommandWithTimeout, its session's scope, the clock
NextCommand ==
    \/ \E c \in Clients : RunCommandWithTimeoutCall(c)
    \/ \E result \in {"nil", "error"} : HandlerFinish(result)
    \/ SelectResult
    \/ SelectDone
    \/ \E c \in Clients : SessionCancel(c)
    \/ Tick

SpecCommand == InitCreate /\ [][NextCommand]_vars

SpecLife == Init /\ [][NextLife]_vars

\* tasks calling NewServer, the children of the records, and the system's
\* answer to IsPortAvailable
NextAlloc ==
    \/ \E t \in Tasks : NewServerCall(t)
    \/ \E t \in Tasks : NewServerLock(t)
    \/ \E t \in Tasks, busy \in SUBSET PortRange : NewServerFindPort(t, busy)
    \/ \E t \in Tasks, number \in 0 .. (NonceSpace - 1) : NewServerFindIdentity(t, number)
    \/ \E t \in Tasks : NewServerAppend(t)
    \/ \E i \in 1 .. Len(marshalServers) : ChildBinds(i)

SpecAlloc == Init /\ [][NextAlloc]_vars

\* one FindPort call on a range that ends near the top of the ports
NextScan ==
    \/ \E lo \in (PortModulus - MaxSpan) .. (PortModulus - 1) :
         \E hi \in lo .. (PortModulus - 1) : FindPortCall(lo, hi)
    \/ \E free \in BOOLEAN : FindPortStep(free)

SpecScan == Init /\ [][NextScan]_vars

\* a child writing events and the two tasks that read them
NextRead ==
    \/ \E events \in SeqsTo(ServerEvents, MaxFrames) : ChildWrites(events)
    \/ \E n \in 1 .. (MaxFrames * (MaxData + 4)) : PollReadsRead(n)
    \/ PollEventsDecode

SpecRead == Init /\ [][NextRead]_vars

\* sessions queueing for duels and leaving, and the matchmaker's Poll
NextMatch ==
    \/ \E client \in Players : Queue(client)
    \/ \E client \in Players : PlayerDisconnects(client)
    \/ PollPass

SpecMatch == Init /\ [][NextMatch]_vars

\* one duel, its watchers, the two players and the kills between them
NextDuel ==
    \/ DuelTask
    \/ DuelWatchers
    \/ \E x \in Duelists, frags \in 0 .. MaxScore : ScoreEvent(x, frags)
    \/ \E x \in Duelists : DuelistLeavesCluster(x)
    \/ \E x \in Duelists : DuelistLeavesServer(x)

SpecDuel == Init /\ [][NextDuel]_vars

\* a duel in which only third frags are reported
NextDuelFewKills ==
    \/ DuelTask
    \/ DuelWatchers
    \/ \E x \in Duelists : ScoreEvent(x, WinMargin)
    \/ \E x \in Duelists : DuelistLeavesCluster(x)
    \/ \E x \in Duelists : DuelistLeavesServer(x)

\* such a duel, every task running on whenever it can
SpecDuelFair ==
    Init /\ [][NextDuelFewKills]_vars /\ WF_vars(DuelTask) /\ WF_vars(DuelWatchers)

\* one map-send flow, its client and the user
NextSend ==
    \/ SendMap
    \/ SendTask
    \/ SendWatcher
    \/ TriggerSend
    \/ SendDemo
    \/ SendScopeCancelled

SpecSend == Init /\ [][NextSend]_vars

\* the same, both tasks running on whenever they can
SpecSendFair == SpecSend /\ WF_vars(SendTask) /\ WF_vars(SendWatcher)

\* the round trip of one Explode message
NextCodec ==
    \/ \E m \in Explode : Marshal(m)
    \/ Unmarshal

SpecCodec == Init /\ [][NextCodec]_vars

\* clients of any role send command texts to a game server
NextHandle ==
    \E clientRole \in Roles, command \in CommandWords, args \in CommandArgs :
        Handle(clientRole, command, args)

SpecHandle == Init /\ [][NextHandle]_vars

\* clients join and leave a game server
NextList ==
    \/ Add
    \/ \E i \in 1 .. MaxAdds : Disconnect(i)

SpecList == Init /\ [][NextList]_vars

\* a server, its child's broadcasts and pongs, and one subscriber
NextCast ==
    \/ BroadcastSubscribe
    \/ DecodeMessages
    \/ PollEventsLoop
    \/ ChildPongs
    \/ SubscriberReceives
    \/ SubscriberStops
    \/ BroadcastUnsubscribeCall
    \/ BroadcastUnsubscribe

\* the same, the loop going on whenever it can, its select taking every case
\* in turn, and the mutex handed to everyone who waits for it
SpecCast ==
    /\ Init /\ [][NextCast]_vars
    /\ WF_vars(PollEventsLoop)
    /\ SF_vars(PollEventsPong)
    /\ SF_vars(BroadcastUnsubscribe)

\* one ENet client, the sends to it and its disconnection
NextAck ==
    \/ \E i \in Sends, sync \in BOOLEAN : ENetSend(i, sync)
    \/ ENetPollReturn
    \/ ENetDisconnect
    \/ ENetTasks

\* the same, with every task going on whenever it can
SpecAck ==
    /\ Init /\ [][NextAck]_vars
    /\ WF_vars(ENetPollReturn)
    /\ WF_vars(ENetTasks)

\* a deployment, the tasks that receive its events, and a GetServer caller
NextDep ==
    \/ Configure
    \/ startServer
    \/ \E h \in Handlers : handleDeploymentSend(h)
    \/ \E h \in Handlers : handleDeploymentDone(h)
    \/ GetServerCall
    \/ GetServer

\* the same, startServer and GetServer going on whenever they can; the tasks
\* that receive the events are under no obligation
SpecDep ==
    /\ Init /\ [][NextDep]_vars
    /\ WF_vars(startServer)
    /\ SF_vars(GetServer)

Next ==
    \/ NextIds \/ NextConn \/ NextUser \/ NextPackets \/ NextOrder
    \/ NextCreate \/ NextCommand \/ NextLife \/ NextAlloc
    \/ NextScan
    \/ NextRead
    \/ NextMatch
    \/ NextDuel
    \/ NextSend
    \/ NextCodec
    \/ NextHandle
    \/ NextList
    \/ NextCast
    \/ NextAck
    \/ NextDep

Spec == Init /\ [][Next]_vars

(* ------------------------------- claims -------------------------------- *)

\* C1: no two clients present in the manager's session set have the same Id.
C1_UniqueIds ==
    \A a, b \in state : a # b => clientId[a] # clientId[b]

\* C2: whenever a session's attached server is non-nil (and nobody is inside
\* the ClientState's critical section), its server scope exists and is not
\* cancelled.
C2_AttachedScopeLive ==
    \A c \in Clients :
        (stateMutex[c] = None /\ Server[c] # None)
            => /\ serverSessionCtx[c] # None
               /\ ~ScopeCancelled(serverSessionCtx[c])

\* C3: a server scope that ConnectClient has replaced by a new one has been
\* cancelled (the connect cancels the old scope before installing the new).
C3_OldScopeCancelled ==
    \A i \in DOMAIN scopes :
        i # serverSessionCtx[scopes[i].owner] => ScopeCancelled(i)

\* the frames one invocation put on the servers' control channels
FramesBy(k) == SelectSeq(sendLog, LAMBDA f : f.by = k)

\* an invocation that took a session attached to A onto a distinct server B
\* and has returned to its caller
MovedAcross(k) ==
    /\ callPc[k] \in {"spawned", "waiting", "done"}
    /\ callResult[k] \notin {"error", "same"}
    /\ callFrom[k] # None
    /\ callFrom[k] # callTo[k]

Migrating(c) ==
    /\ Status[c] = ClientStatusConnecting
    /\ Server[c] # None
    /\ \E k \in Calls : /\ callClient[k] = c
                         /\ callKind[k] = "connect"
                         /\ callPc[k] \in {"spawned", "waiting"}

\* C5: while a session is migrating (its status is Connecting), a packet
\* forwarded for it to its attached server holds connection-handshake
\* messages only.
C5_HandshakeOnlyWhileConnecting ==
    [][\A c \in Clients :
          Migrating(c)
            => /\ \A i \in (Len(sendLog) + 1) .. Len(sendLog') :
                    (/\ sendLog'[i].event = "Receive"
                     /\ sendLog'[i].server = Server[c]
                     /\ sendLog'[i].id = clientId[c])
                      => \A j \in DOMAIN sendLog'[i].data :
                            IsConnectingMessage(sendLog'[i].data[j].code)
               /\ \A i \in (Len(incoming) + 1) .. Len(incoming') :
                    (/\ incoming'[i].server = Server[c]
                     /\ incoming'[i].session = clientId[c])
                      => \A j \in DOMAIN incoming'[i].messages :
                            IsConnectingMessage(incoming'[i].messages[j].code)]_vars

\* the concatenation of a sequence of sequences
Flatten(ss) ==
    LET cat[i \in 0 .. Len(ss)] == IF i = 0 THEN <<>> ELSE cat[i - 1] \o ss[i]
    IN cat[Len(ss)]

\* the arrival numbers of the messages a server was handed for a session
Delivered(s, id) ==
    LET packets == SelectSeq(incoming, LAMBDA q : q.server = s /\ q.session = id)
        all == Flatten([i \in 1 .. Len(packets) |-> packets[i].messages])
    IN [i \in 1 .. Len(all) |-> all[i].seq]

\* the arrival numbers of a session's messages in the frames a server's
\* writer has put on its socket
Written(s, id) ==
    LET frames == SelectSeq(SubSeq(SendOf(s), 1, written[s]),
                            LAMBDA f : f.event = "Receive" /\ f.id = id)
        all == Flatten([i \in 1 .. Len(frames) |-> frames[i].data])
    IN [i \in 1 .. Len(all) |-> all[i].seq]

Increasing(q) == \A i, j \in DOMAIN q : i < j => q[i] < q[j]

\* C6: the messages of one session that reach a server are in the order in
\* which they arrived on the ingress (packet by packet, and inside a packet).
C6_OrderPreserved ==
    \A s \in Servers, c \in Clients :
        /\ Increasing(Delivered(s, clientId[c]))
        /\ Increasing(Written(s, clientId[c]))

C6_Witness ==
    \E s \in Servers :
        /\ Len(Delivered(s, 0)) >= 2
        /\ Len(incoming) >= 2

\* the messages of the handled packet that no tap dropped
NotDropped ==
    LET keep[i \in 0 .. Len(handled.msgs)] ==
            IF i = 0 THEN <<>>
            ELSE IF handled.outcome[i] = "Drop" THEN keep[i - 1]
            ELSE Append(keep[i - 1], handled.msgs[i])
    IN keep[Len(handled.msgs)]

\* C7: the messages forwarded for a processed packet are exactly its decoded
\* messages that were not dropped, in their original order.
C7_ForwardedExact ==
    handled.sent => handled.out = NotDropped

\* C8: a message handed to a tap is resolved by that tap with exactly one
\* disposition.
C8_OneDisposition ==
    \A i \in DOMAIN handled.calls :
        (handled.taps[i] # "none" /\ ~handled.timedOut[i])
            => Len(handled.calls[i]) = 1

C10_TooSoonRejected ==
    [][\A c \in Clients :
          (/\ createSeq' # createSeq
           /\ createBy' = c
           /\ c \in DOMAIN lastSuccess
           /\ now - lastSuccess[c] < CREATE_SERVER_COOLDOWN)
            => /\ createResult' = "too soon since last server create"
               /\ UNCHANGED <<lastCreate, hostServers, managerServers, nextServer>>]_vars

C10_Witness ==
    /\ createResult = "too soon since last server create"
    /\ createBy \in DOMAIN lastSuccess
    /\ now - lastSuccess[createBy] < CREATE_SERVER_COOLDOWN
    /\ managerServers # {}

\* C11: a creategame of one session is not rejected with the cooldown error
\* because of another session's create, and it removes no server that another
\* session created.
C11_OtherSessionsUnaffected ==
    [][\A c \in Clients :
          (createSeq' # createSeq /\ createBy' = c)
            => /\ (c \notin DOMAIN lastSuccess
                   \/ now - lastSuccess[c] >= CREATE_SERVER_COOLDOWN)
                    => createResult' # "too soon since last server create"
               /\ \A s \in managerServers \ managerServers' : creator[s] = c]_vars

\* C12: runCommandWithTimeout is not waiting after its 10 s, nor while the
\* scope it was given is cancelled; it returns the handler's result when the
\* handler finished in time, and "command timed out" otherwise.
C12_ReturnsInTime ==
    /\ cmdPc = "waiting" => now <= cmdDeadline
    /\ cmdPc = "returned" =>
         /\ cmdReturn # "command timed out" =>
              /\ cmdHandler = "received"
              /\ cmdReturn = cmdHandlerResult
              /\ cmdFinishedAt <= cmdDeadline
         /\ cmdReturn = "command timed out" =>
              \/ ~cmdScopeLive
              \/ cmdHandler = "running"
              \/ cmdFinishedAt >= cmdDeadline
         /\ (cmdHandler # "running" /\ cmdFinishedAt < cmdDeadline /\ cmdScopeLive)
              => cmdReturn = cmdHandlerResult

C12_Witness ==
    /\ cmdPc = "returned"
    /\ cmdReturn = "command timed out"
    /\ cmdScopeLive
    /\ cmdHandler = "running"
    /\ now = cmdDeadline


\* the place of a status in Starting -> Started -> Healthy -> (Exited | Failed)
StatusRank(status) ==
    IF status = ServerStarting THEN 0
    ELSE IF status = ServerStarted THEN 1
    ELSE IF status = ServerHealthy THEN 2
    ELSE 3

\* C13: under every interleaving of the Start, PollEvents and Wait tasks a
\* server's status is never set back to an earlier state of
\* Starting -> Started -> Healthy -> (Exited | Failed), and once it is
\* Exited or Failed it never changes again
C13_StatusOnlyForward ==
    [][\A s \in Servers :
          /\ StatusRank(gsStatus'[s]) >= StatusRank(gsStatus[s])
          /\ gsStatus[s] \in {ServerExited, ServerFailure}
                => gsStatus'[s] = gsStatus[s]]_vars


\* the frame the step puts on a send channel, if it puts one
Sent == sendLog'[Len(sendLog')]

\* C14: a Connect is put on a server's control channel (by join, go or
\* MoveClient) only if that server's status is Healthy at that moment
C14_AttachOnlyHealthy ==
    [][(Len(sendLog') = Len(sendLog) + 1 /\ Sent.event = "Connect")
          => gsStatus[Sent.server] = ServerHealthy]_vars


\* C15: whenever a server's status is Healthy, a ping sent on its control
\* channel has been answered by a pong from the child
C15_HealthyAfterPong ==
    \A s \in Servers :
        gsStatus[s] = ServerHealthy => life[s].pinged /\ life[s].answered


\* PollEvents takes a ping tick of a Healthy server whose last pong is more
\* than two ping intervals old
OverdueTick(s) ==
    /\ gsStatus[s] = ServerHealthy
    /\ life[s].pollPc = "select"
    /\ life[s].pingTicker /\ ~life'[s].pingTicker
    /\ life[s].sinceLastPong > 2 * pingInterval

\* C16: once a server is Healthy, if more than two ping intervals pass
\* without a pong, then at the next ping tick its status becomes Failed and
\* its shutdown is initiated
C16_OverdueFailsAndShutsDown ==
    [][\A s \in Servers :
          OverdueTick(s)
            => /\ gsStatus'[s] = ServerFailure
               /\ life'[s].shutdowns > life[s].shutdowns]_vars


\* C17: StartAndWait returns within the connect timeout plus the healthy
\* timeout; it returns nil only if the control socket was connected and the
\* status was observed Healthy, which the child must have reported; when
\* Start fails or Healthy is not observed in time it returns an error
C17_StartAndWaitBounded ==
    \A s \in Servers :
        /\ life[s].elapsed <= StartTimeout + HealthyTimeout
        /\ life[s].result = "nil"
             => life[s].socket /\ life[s].sawHealthy /\ life[s].healthySent
        /\ (life[s].startPc = "returned" /\ life[s].healthPc \in {"idle", "returned"})
             => /\ life[s].result \in {"nil", "starting server timed out"}
                /\ ~(life[s].socket /\ life[s].sawHealthy)
                     => life[s].result = "starting server timed out"

\* StartAndWait returned nil for a server that Start connected to at the
\* end of its timeout
C17_Witness ==
    \E s \in Servers :
        /\ life[s].result = "nil"
        /\ life[s].elapsed >= StartTimeout
        /\ life[s].socket /\ life[s].sawHealthy


\* C18: Shutdown sends an OS kill to the child whenever the child process
\* is running, whatever the server's status
C18_ShutdownKillsRunningChild ==
    [][\A s \in Servers :
          (life'[s].shutdowns > life[s].shutdowns /\ life[s].command = "running")
            => /\ life'[s].kills > life[s].kills
               /\ life'[s].command # "running"]_vars


\* C19: after any sequence of NewServer calls, concurrent ones included, no
\* two records of the manager have the same port
C19_PortsDistinct ==
    \A i, j \in 1 .. Len(marshalServers) :
        i # j => marshalServers[i].Port # marshalServers[j].Port

\* two records exist, and a caller waits for the mutex while another is
\* inside NewServer
C19_Witness ==
    /\ Len(marshalServers) >= 2
    /\ \E t, u \in Tasks :
          /\ newPc[t] = "waiting"
          /\ newPc[u] \in {"locked", "ported", "identified"}

\* C20: after any sequence of NewServer calls no two records have the same
\* Id, and so the same control-socket path
C20_IdsDistinct ==
    \A i, j \in 1 .. Len(marshalServers) :
        i # j => marshalServers[i].Id # marshalServers[j].Id


\* C21: FindPort examines each candidate minPort, minPort + 2, ... at most
\* once: its loop variable never passes 2^16 and so never names a port
\* below minPort, and the call ends when the candidates are used up
C21_FindPortScansOnce ==
    /\ ~scanWrapped
    /\ scanPc = "loop" => scanPort >= scanMin


\* C22: however the child's byte stream is split across socket reads, the
\* reader yields the events the child wrote, in order, each decoded from
\* its whole frame
C22_FramesWhole ==
    /\ ~readPanicked
    /\ \E k \in 0 .. Len(readWritten) : readYield = SubSeq(readWritten, 1, k)
    /\ (readWritten # <<>> /\ readPending = <<>> /\ readChunks = <<>>)
         => readYield = readWritten


\* C23: after any sequence of Queue calls and poll passes the matchmaker's
\* queue holds at most one entry for any session
C23_OneEntryPerSession ==
    \A i, j \in 1 .. Len(queue) : i # j => queue[i].client # queue[j].client

RECURSIVE PairUp(_)
\* the oldest entry with the second oldest, the third with the fourth, ...
PairUp(q) ==
    IF Len(q) < 2 THEN <<>>
    ELSE <<(<<q[1].client, q[2].client>>)>> \o PairUp(SubSeq(q, 3, Len(q)))

\* C24: the duels started by one poll pass pair the eligible entries two by
\* two in FIFO order, so no session is in two duels of a pass or paired with
\* itself; stated for passes over entries of distinct sessions
C24_PairsTwoByTwo ==
    (\A i, j \in 1 .. Len(passQueue) :
        i # j => passQueue[i].client # passQueue[j].client)
      => passDuels = PairUp(passQueue)


Aborting ==
    /\ duel.pc \notin {"idle", "returned"}
    /\ \E x \in Duelists : duel.sessionGone[x] \/ duel.newGone[x]

\* the duelists whose scopes have not ended
Survivors == {x \in Duelists : ~duel.sessionGone[x] /\ ~duel.newGone[x]}

\* C26: once a duelist's session scope or duel-server scope has ended
\* during a duel, the match scope is cancelled, the Duel task returns, and
\* a connect to its previous server is issued for the other duelist when
\* the duel had taken it from there
C26_AbortEndsDuel ==
    Aborting ~> (\/ exited
                 \/ /\ duel.matchDone
                    /\ duel.pc = "returned"
                    /\ \A x \in Survivors : duel.moved[x] => x \in duel.reconnects)

\* C27: when Duel has returned, or the process has ended on its
\* logger.Fatal, no duel server is left that was not shut down
C27_DuelServerShutDown ==
    (duel.pc = "returned" \/ exited) => duel.server \in {"none", "shutdown"}


\* the steps of a map-send flow in their order
FlowOrder ==
    <<"SendMap", "instruction", "demoRequest", "SendDemo", "teleport2", "reattach">>

\* whether a step is one of them
InFlowOrder(step) == \E i \in 1 .. Len(FlowOrder) : FlowOrder[i] = step

\* C28: the steps a map-send flow has done are, in this order and none
\* left out: the proxy map sent with N_SENDMAP, the instruction posted, the
\* demo request received, the map sent with N_SENDDEMO, the player moved
\* onto the second teleporter, the player connected again to its server;
\* N_SENDDEMO is sent only after the client has asked for the demo
C28_FlowInOrder ==
    /\ LET done == SelectSeq(sendSteps, InFlowOrder) IN
         /\ Len(done) <= Len(FlowOrder)
         /\ done = SubSeq(FlowOrder, 1, Len(done))
    /\ (\E i \in 1 .. Len(sendSteps) : sendSteps[i] = "SendDemo") => requested

\* a flow has run to its end
C28_Witness ==
    /\ sendPc = "terminated"
    /\ ~handling
    /\ sendSteps = <<"SendMap", "instruction", "teleport1", "demoRequest",
                     "SendDemo", "teleport2", "reattach">>

\* C29: every flow that has started ends: the client is no longer in
\* m.Clients and the task that runs Send has ended
C29_FlowEnds ==
    (sendPc # "idle") ~> (~handling /\ sendPc = "terminated")


\* C30: Unmarshal of what Marshal has written succeeds and yields the
\* message that was given to Marshal
C30_RoundTrip ==
    codecPc = "unmarshalled" => msgOut.ok /\ msgOut.value = msgIn


\* C31: when newClientID has used up its attempts with every id it can draw
\* taken, so that AddClient fails, no id of a session is free
C31_AcceptsWhileIdFree ==
    \A t \in Tasks :
        (/\ addPc[t] = "newClientID"
         /\ attempts[t] >= AttemptLimit
         /\ \A number \in Ids : Taken(number))
            => \A number \in SessionIds : Taken(number)


\* C32: a message of the handled packet whose tap did not answer in time is
\* forwarded all the same, and it stands in the forwarded packet before
\* every later message of the packet that is forwarded
C32_TimeoutIsPass ==
    handled.sent =>
        \A i \in DOMAIN handled.msgs :
            handled.timedOut[i] =>
                \E j \in DOMAIN handled.out :
                    /\ handled.out[j] = ProcessTo(handled.msgs[i])
                    /\ \A k \in DOMAIN handled.out :
                          handled.out[k].seq > handled.msgs[i].seq => k > j


\* C33: PollEvents' loop over a message of socketWrites never ends in a
\* panic, whatever the message holds: after the message it goes on with the
\* next one
C33_MalformedDropped ==
    [][(readChunks # <<>> /\ readChunks' = Tail(readChunks)) => ~readPanicked']_vars


\* C34: when a client has called a command whose minRole is above its role,
\* the command's handler has not run and Handle has sent the client a
\* message
C34_RefusalIsTold ==
    \A i \in DOMAIN handleLog :
        LET call == handleLog[i] IN
          (/\ call.command \in DOMAIN ByAlias
           /\ RoleRank[call.role] < RoleRank[MinRole[ByAlias[call.command]]])
            => call.outcome.ran = "none" /\ call.outcome.sent # "none"


\* C35: hostServers names only servers of the manager's list, and no two
\* servers of the list were created from one host
C35_OneServerPerHost ==
    /\ \A host \in DOMAIN hostServers : hostServers[host] \in managerServers
    /\ \A s1, s2 \in managerServers :
          clientHost[creator[s1]] = clientHost[creator[s2]] => s1 = s2


\* C36: every connected client is the one GetClientByCN finds for its CN,
\* and no two connected clients have the same CN
C36_ClientByOwnCN ==
    /\ \A i \in DOMAIN cmClients : GetClientByCN(cmClients[i].CN) = cmClients[i]
    /\ \A i, j \in DOMAIN cmClients :
          cmClients[i].CN = cmClients[j].CN => i = j


\* C37: a BroadcastUnsubscribe that was called completes, and a pong that
\* waits is processed, whatever the subscriber does with its channel
C37_SubscriberCannotBlock ==
    /\ (castUnsub = "waiting") ~> (castUnsub = "done")
    /\ castPong ~> ~castPong


\* C38: the goroutine of every ConnectClient call that took a ConnectMutex
\* defers the Unlock of that same mutex, the one of the server passed to the
\* call, and neither its defer nor its Unlock ends the process
C38_ReleasesAcquiredMutex ==
    \A k \in Calls :
        (/\ callKind[k] = "connect"
         /\ callPc[k] \in {"spawned", "waiting", "done"}
         /\ callResult[k] # "error")
            => /\ ~crashed
               /\ callPc[k] # "spawned" => callTarget[k] = callTo[k]


\* C39: a caller that waits for the acknowledgement of its Send gets one
C39_SendIsAcknowledged ==
    \A i \in Sends : (ackCaller[i] = "waiting") ~> (ackCaller[i] \in {"nil", "error"})


\* C40: a startServer that was called returns and releases the mutex, and a
\* GetServer that was called returns
C40_StartServerReturns ==
    /\ (depPc # "idle") ~> (depPc = "idle" /\ depMutex = "free")
    /\ (getPc = "Lock") ~> (getPc = "returned")

====
